---- MODULE Spec2Model ----
(***************************************************************************)
(* The context-aware suggestion pipeline of auto-cli-suggestion:           *)
(*   OptimizedGeminiService  (src/unnamed/part_001, the key-rotating       *)
(*                            gemini-service-optimized.js)                 *)
(*   CacheManager            (src/unnamed/part_002, cache-manager.js)      *)
(*   ContextManager          (src/context-manager.js)                      *)
(*   config                  (src/config.js)                               *)
(* and the single-credential OptimizedGeminiService                       *)
(* (src/gemini-service-optimized.js), which shares the CacheManager.       *)
(*                                                                         *)
(* Strings are sequences of one-character strings, so that trim(),         *)
(* toLowerCase(), startsWith() and includes() are computed, not assumed.   *)
(* Time is in milliseconds, as Date.now() is.                              *)
(***************************************************************************)
EXTENDS Integers, Sequences, FiniteSets, TLC

\* ------------------------------------------------------------------ bounds
MaxCalls == 1        \* getCommandSuggestion calls that may be in flight at once
MaxStarted == 1      \* getCommandSuggestion calls started in one behaviour
MaxTicks == 1        \* clock advances in one behaviour
MaxKeys == 3         \* largest credential pool
MaxSends == 2        \* postWithKeyRotation calls that may be in flight at once
MaxSendsStarted == 2 \* postWithKeyRotation calls started in one behaviour
StartTime == 200000000  \* Date.now() when the service is constructed
MaxTermCalls == 2    \* calls the terminal may have in flight at once
MaxTermStarted == 2  \* calls the terminal starts in one behaviour
MaxKeystrokes == 4   \* keys pressed in one behaviour
MaxRepeats == 2      \* calls made one after the other in one behaviour
MaxOps == 3          \* CacheManager methods called directly in one behaviour
MaxElapses == 2      \* clock advances between such calls
MaxRecorded == 11    \* addRecentCommand calls on one ContextManager
\* config.MAX_CACHE_SIZE: 1000 in config.js, scaled down here so that a cache
\* of a few entries is full
MAX_CACHE_SIZE == 2

\* ------------------------------------------------------- config (config.js)
SUGGESTION_DELAY == 2000
MIN_INPUT_LENGTH == 3
MAX_SUGGESTION_LENGTH == 30
MAX_DAILY_REQUESTS == 100
REQUEST_COOLDOWN == 5000
CACHE_DURATION == 3600000
MS_PER_DAY == 86400000

\* ------------------------------------------------------------------ strings
Lower == [ A |-> "a", B |-> "b", C |-> "c", D |-> "d", E |-> "e", F |-> "f",
            G |-> "g", H |-> "h", I |-> "i", J |-> "j", K |-> "k", L |-> "l",
            M |-> "m", N |-> "n", O |-> "o", P |-> "p", Q |-> "q", R |-> "r",
            S |-> "s", T |-> "t", U |-> "u", V |-> "v", W |-> "w", X |-> "x",
            Y |-> "y", Z |-> "z" ]

toLowerChar(ch) == IF ch \in DOMAIN Lower THEN Lower[ch] ELSE ch

\* String.prototype.toLowerCase
toLowerCase(s) == [i \in 1..Len(s) |-> toLowerChar(s[i])]

IsSpace(ch) == ch \in {" ", "\t", "\n"}

RECURSIVE trimStart(_)
trimStart(s) ==
    IF s # <<>> /\ IsSpace(Head(s)) THEN trimStart(Tail(s)) ELSE s

RECURSIVE trimEnd(_)
trimEnd(s) ==
    IF s # <<>> /\ IsSpace(s[Len(s)]) THEN trimEnd(SubSeq(s, 1, Len(s) - 1)) ELSE s

\* String.prototype.trim
trim(s) == trimEnd(trimStart(s))

\* String.prototype.startsWith
startsWith(s, prefix) ==
    /\ Len(prefix) <= Len(s)
    /\ SubSeq(s, 1, Len(prefix)) = prefix

\* String.prototype.includes
includes(s, sub) ==
    \E i \in 0..(Len(s) - Len(sub)) : SubSeq(s, i + 1, i + Len(sub)) = sub

\* Array.prototype.filter on a sequence, keeping order
RECURSIVE filterSeq(_, _)
filterSeq(seq, keep) ==
    IF seq = <<>> THEN <<>>
    ELSE IF keep[1]
         THEN <<Head(seq)>> \o filterSeq(Tail(seq), Tail(keep))
         ELSE filterSeq(Tail(seq), Tail(keep))

\* a JavaScript value that is either null or a string
NULL == [isNull |-> TRUE, str |-> <<>>]
Str(s) == [isNull |-> FALSE, str |-> s]
\* JavaScript truthiness of such a value: null and "" are falsy
Truthy(v) == ~v.isNull /\ v.str # <<>>

\* ------------------------------------------------------------------- inputs
S_gi == <<"g", "i">>
S_gi_padded == <<" ", "g", "i", " ">>
S_git == <<"g", "i", "t">>
S_Git_lead == <<" ", "G", "i", "t">>
S_xyz == <<"x", "y", "z">>
S_git_status == <<"g", "i", "t", " ", "s", "t", "a", "t", "u", "s">>

Inputs == {S_gi, S_gi_padded, S_git, S_Git_lead, S_xyz}

\* ---------------------------------------------------------------- variables
VARIABLES
    config,           \* config.js: the two feature flags the pipeline reads
    apiKeys,          \* OptimizedGeminiService.apiKeys, as the pool size
    currentKeyIndex,  \* OptimizedGeminiService.currentKeyIndex
    cache,            \* CacheManager.cache: a Map, kept in insertion order
    usageStats,       \* CacheManager.usageStats
    lastRequestTime,  \* CacheManager.lastRequestTime
    cacheFile,        \* suggestion-cache.json
    usageFile,        \* usage.json
    cacheWrites,      \* writes of suggestion-cache.json issued and not yet landed
    usageWrites,      \* writes of usage.json issued and not yet landed
    loading,          \* which of the constructor's asynchronous loads are pending
    ctx,              \* ContextManager: fileContext, gitContext, nodeContext,
                      \* recentCommands
    env,              \* the working directory the probes look at
    now,              \* Date.now()
    ticks,            \* clock advances so far
    call,             \* getCommandSuggestion invocations
    started,          \* getCommandSuggestion invocations so far
    send,             \* postWithKeyRotation invocations made directly
    sendsStarted,     \* such invocations so far
    term,             \* the terminal: the line, the suggestion, the debounce timer
    op                \* the method that ran last, of those called directly

vars == <<config, apiKeys, currentKeyIndex, cache, usageStats, lastRequestTime,
          cacheFile, usageFile, cacheWrites, usageWrites, loading, ctx, env,
          now, ticks, call, started, send, sendsStarted, term, op>>

Calls == 1..MaxCalls
TermCalls == 1..MaxTermCalls
CallSlots == Calls \cup TermCalls
Sends == 1..MaxSends

\* new Date().toDateString(), as a day number
Today == now \div MS_PER_DAY

\* ------------------------------------------------------------- CacheManager
\* getCacheKey without the toLowerCase
getCacheKey_cased(input) == trim(input)

\* CacheManager.getCacheKey
getCacheKey(input) == toLowerCase(trim(input))

\* Map.prototype.get on the insertion-ordered map: the index of key, 0 if absent
CacheIndex(c, key) ==
    IF \E i \in 1..Len(c) : c[i].key = key
    THEN CHOOSE i \in 1..Len(c) : c[i].key = key
    ELSE 0

\* Map.prototype.set: an existing key keeps its position, a new one goes last
MapSet(c, key, suggestion, timestamp) ==
    LET e == [key |-> key, suggestion |-> suggestion, timestamp |-> timestamp]
        i == CacheIndex(c, key)
    IN  IF i = 0 THEN Append(c, e) ELSE [c EXCEPT ![i] = e]

\* get with an entry still served when its age is exactly CACHE_DURATION
get_inclusive(input) ==
    IF ~config.ENABLE_CACHE THEN [value |-> NULL, hit |-> FALSE]
    ELSE LET i == CacheIndex(cache, getCacheKey(input))
         IN  IF i # 0 /\ now - cache[i].timestamp <= CACHE_DURATION
             THEN [value |-> Str(cache[i].suggestion), hit |-> TRUE]
             ELSE [value |-> NULL, hit |-> FALSE]

\* CacheManager.get: the value returned and whether cachedHits was incremented
get(input) ==
    IF ~config.ENABLE_CACHE THEN [value |-> NULL, hit |-> FALSE]
    ELSE LET i == CacheIndex(cache, getCacheKey(input))
         IN  IF i # 0 /\ now - cache[i].timestamp < CACHE_DURATION
             THEN [value |-> Str(cache[i].suggestion), hit |-> TRUE]
             ELSE [value |-> NULL, hit |-> FALSE]

\* canMakeRequest still refusing when exactly REQUEST_COOLDOWN has elapsed
canMakeRequest_late(stats) ==
    IF stats.dailyRequests >= MAX_DAILY_REQUESTS THEN FALSE
    ELSE IF now - lastRequestTime <= REQUEST_COOLDOWN THEN FALSE
    ELSE TRUE

\* CacheManager.canMakeRequest, on a usage record
canMakeRequest(stats) ==
    IF stats.dailyRequests >= MAX_DAILY_REQUESTS THEN FALSE
    ELSE IF now - lastRequestTime < REQUEST_COOLDOWN THEN FALSE
    ELSE TRUE

\* loadCache taking every entry of the file, expired or not
RECURSIVE loadEntries_unfiltered(_, _)
loadEntries_unfiltered(c, entries) ==
    IF entries = <<>> THEN c
    ELSE LET e == Head(entries)
         IN  loadEntries_unfiltered(MapSet(c, e.key, e.suggestion, e.timestamp),
                                    Tail(entries))

\* CacheManager.loadCache: the entries of the file that have not expired
RECURSIVE loadEntries(_, _)
loadEntries(c, entries) ==
    IF entries = <<>> THEN c
    ELSE LET e == Head(entries)
         IN  loadEntries(IF now - e.timestamp < CACHE_DURATION
                         THEN MapSet(c, e.key, e.suggestion, e.timestamp)
                         ELSE c,
                         Tail(entries))

\* CacheManager.loadUsageStats: the parsed record, with the daily reset
loadedUsage(data) ==
    IF data.lastReset # Today
    THEN [data EXCEPT !.dailyRequests = 0, !.lastReset = Today]
    ELSE data

\* CacheManager.set (lines 108-125): nothing when the cache is disabled; else
\* the first key of a full map is deleted, the entry is stored with the time
\* of the call, and saveCache is started
set(c, input, suggestion) ==
    IF ~config.ENABLE_CACHE THEN [cache |-> c, saved |-> FALSE]
    ELSE LET room == IF Len(c) >= MAX_CACHE_SIZE THEN Tail(c) ELSE c
         IN  [cache |-> MapSet(room, getCacheKey(input), suggestion, now),
              saved |-> TRUE]

\* the cost recordRequest adds for tokenCount tokens, in 10^-12 dollars:
\* tokenCount * 0.000075 / 1000000 + tokenCount * 0.0003 / 1000000
requestCost(tokenCount) == tokenCount * 75 + tokenCount * 300

\* CacheManager.recordRequest (lines 142-154), on a usage record; it also
\* stamps lastRequestTime and starts saveUsageStats
recordRequest(stats, tokenCount) ==
    [stats EXCEPT !.totalRequests = @ + 1,
                  !.dailyRequests = @ + 1,
                  !.costEstimate = @ + requestCost(tokenCount)]

\* ----------------------------------------------------------- ContextManager
F_package_json == <<"p", "a", "c", "k", "a", "g", "e", ".", "j", "s", "o", "n">>
F_index_js == <<"i", "n", "d", "e", "x", ".", "j", "s">>
F_README_md == <<"R", "E", "A", "D", "M", "E", ".", "m", "d">>
F_main_py == <<"m", "a", "i", "n", ".", "p", "y">>
F_src == <<"s", "r", "c">>

File(name) == [name |-> name, isDirectory |-> FALSE]
Dir(name) == [name |-> name, isDirectory |-> TRUE]

\* the directories the service may be started in, by what the three probes
\* find there: readable is whether fs.readdir succeeds, isGitRepo whether the
\* two git commands succeed, hasPackageJson whether package.json is read and
\* parsed, scripts the number of scripts it lists; a probe that fails leaves
\* its feature absent.  writable is whether fs.writeFile succeeds on the two
\* persisted files
Envs == {
    [files |-> <<File(F_package_json), File(F_index_js), Dir(F_src)>>,
     readable |-> TRUE, writable |-> TRUE,
     isGitRepo |-> TRUE, hasChanges |-> TRUE, hasPackageJson |-> TRUE, scripts |-> 2],
    [files |-> <<File(F_README_md)>>, readable |-> TRUE, writable |-> TRUE,
     isGitRepo |-> TRUE, hasChanges |-> FALSE, hasPackageJson |-> FALSE, scripts |-> 0],
    [files |-> <<File(F_main_py)>>, readable |-> TRUE, writable |-> TRUE,
     isGitRepo |-> FALSE, hasChanges |-> FALSE, hasPackageJson |-> FALSE, scripts |-> 0],
    [files |-> <<File(F_README_md)>>, readable |-> FALSE, writable |-> TRUE,
     isGitRepo |-> FALSE, hasChanges |-> FALSE, hasPackageJson |-> FALSE, scripts |-> 0] }

NoGit == [isNull |-> TRUE, isGitRepo |-> FALSE, hasChanges |-> FALSE]
NoNode == [isNull |-> TRUE, hasPackageJson |-> FALSE, scripts |-> 0]

\* Array.prototype.some(f => f.name.includes(sub)) over fileContext
someIncludes(files, sub) == \E i \in 1..Len(files) : includes(files[i].name, sub)

\* getDirectoryType asking for the repository before the manifest
getDirectoryType_vcsFirst(c) ==
    IF ~c.gitContext.isNull /\ c.gitContext.isGitRepo THEN "git"
    ELSE IF ~c.nodeContext.isNull /\ c.nodeContext.hasPackageJson THEN "nodejs"
    ELSE IF someIncludes(c.fileContext, <<".", "p", "y">>) THEN "python"
    ELSE IF someIncludes(c.fileContext, <<".", "j", "a", "v", "a">>) THEN "java"
    ELSE IF \/ someIncludes(c.fileContext, <<".", "c", "p", "p">>)
            \/ someIncludes(c.fileContext, <<".", "c">>) THEN "cpp"
    ELSE IF \/ someIncludes(c.fileContext, <<".", "h", "t", "m", "l">>)
            \/ someIncludes(c.fileContext, <<".", "j", "s">>) THEN "web"
    ELSE "general"

\* ContextManager.getDirectoryType
getDirectoryType(c) ==
    IF ~c.nodeContext.isNull /\ c.nodeContext.hasPackageJson THEN "nodejs"
    ELSE IF ~c.gitContext.isNull /\ c.gitContext.isGitRepo THEN "git"
    ELSE IF someIncludes(c.fileContext, <<".", "p", "y">>) THEN "python"
    ELSE IF someIncludes(c.fileContext, <<".", "j", "a", "v", "a">>) THEN "java"
    ELSE IF \/ someIncludes(c.fileContext, <<".", "c", "p", "p">>)
            \/ someIncludes(c.fileContext, <<".", "c">>) THEN "cpp"
    ELSE IF \/ someIncludes(c.fileContext, <<".", "h", "t", "m", "l">>)
            \/ someIncludes(c.fileContext, <<".", "j", "s">>) THEN "web"
    ELSE "general"

commands == [
    nodejs |-> <<
        <<"n", "p", "m", " ", "i", "n", "s", "t", "a", "l", "l">>,
        <<"n", "p", "m", " ", "s", "t", "a", "r", "t">>,
        <<"n", "p", "m", " ", "r", "u", "n", " ", "d", "e", "v">>,
        <<"n", "p", "m", " ", "t", "e", "s", "t">>,
        <<"n", "p", "m", " ", "r", "u", "n", " ", "b", "u", "i", "l", "d">>
    >>,
    git |-> <<
        <<"g", "i", "t", " ", "s", "t", "a", "t", "u", "s">>,
        <<"g", "i", "t", " ", "a", "d", "d", " ", ".">>,
        <<"g", "i", "t", " ", "c", "o", "m", "m", "i", "t">>,
        <<"g", "i", "t", " ", "p", "u", "s", "h">>,
        <<"g", "i", "t", " ", "p", "u", "l", "l">>
    >>,
    python |-> <<
        <<"p", "y", "t", "h", "o", "n">>,
        <<"p", "i", "p", " ", "i", "n", "s", "t", "a", "l", "l">>,
        <<"p", "y", "t", "h", "o", "n", " ", "-", "m", " ", "v", "e", "n", "v">>,
        <<"p", "y", "t", "h", "o", "n", " ", "m", "a", "n", "a", "g", "e", ".", "p", "y">>
    >>,
    java |-> <<
        <<"j", "a", "v", "a", "c">>,
        <<"j", "a", "v", "a">>,
        <<"m", "v", "n">>,
        <<"g", "r", "a", "d", "l", "e">>
    >>,
    cpp |-> <<
        <<"g", "+", "+">>,
        <<"m", "a", "k", "e">>,
        <<"c", "m", "a", "k", "e">>,
        <<".", "/", "a", ".", "o", "u", "t">>
    >>,
    web |-> <<
        <<"n", "p", "m", " ", "i", "n", "s", "t", "a", "l", "l">>,
        <<"n", "p", "m", " ", "s", "t", "a", "r", "t">>,
        <<"n", "p", "x">>,
        <<"y", "a", "r", "n">>
    >>,
    general |-> <<
        <<"l", "s">>,
        <<"c", "d">>,
        <<"m", "k", "d", "i", "r">>,
        <<"r", "m">>,
        <<"c", "p">>,
        <<"m", "v">>
    >> ]

\* ContextManager.getRelevantCommands
getRelevantCommands(c) == commands[getDirectoryType(c)]

\* ContextManager.buildContextPrompt.  context-manager.js never requires
\* ./config, so evaluating config.MAX_SUGGESTION_LENGTH in the last template
\* literal (line 171) raises a ReferenceError on every call: the method never
\* returns a prompt.
buildContextPrompt(c, userInput) == [threw |-> TRUE, prompt |-> <<>>]

\* getContextualSuggestion returning the last matching command, not the first
getContextualSuggestion_last(c, userInput) ==
    LET relevantCommands == getRelevantCommands(c)
        matchingCommands ==
            filterSeq(relevantCommands,
                      [i \in 1..Len(relevantCommands) |->
                          startsWith(toLowerCase(relevantCommands[i]),
                                     toLowerCase(userInput))])
        built == buildContextPrompt(c, userInput)
    IN  IF Len(matchingCommands) > 0
        THEN [kind |-> "string",
              value |-> matchingCommands[Len(matchingCommands)]]
        ELSE IF built.threw
             THEN [kind |-> "threw", value |-> <<>>]
             ELSE [kind |-> "prompt", value |-> built.prompt]

\* ContextManager.getContextualSuggestion, after updateContext has finished:
\* the first relevant command that starts with the input, else the prompt
getContextualSuggestion(c, userInput) ==
    LET relevantCommands == getRelevantCommands(c)
        matchingCommands ==
            filterSeq(relevantCommands,
                      [i \in 1..Len(relevantCommands) |->
                          startsWith(toLowerCase(relevantCommands[i]),
                                     toLowerCase(userInput))])
        built == buildContextPrompt(c, userInput)
    IN  IF Len(matchingCommands) > 0
        THEN [kind |-> "string", value |-> matchingCommands[1]]
        ELSE IF built.threw
             THEN [kind |-> "threw", value |-> <<>>]
             ELSE [kind |-> "prompt", value |-> built.prompt]

\* ------------------------------------------------- OptimizedGeminiService
\* entry with the minimum length tested on the raw input, not the trimmed one
entry_untrimmed(userInput) ==
    LET base == [route |-> "disabled", result |-> NULL, looked |-> FALSE,
                 hit |-> FALSE, governor |-> FALSE, stats |-> usageStats,
                 lastRequestTime |-> lastRequestTime]
    IN
    IF ~config.ENABLE_SUGGESTIONS THEN base
    ELSE IF Len(userInput) < MIN_INPUT_LENGTH
    THEN [base EXCEPT !.route = "short"]
    ELSE
        LET cachedSuggestion == get(userInput)
            stats == IF cachedSuggestion.hit
                     THEN [usageStats EXCEPT !.cachedHits = @ + 1]
                     ELSE usageStats
            looked == [base EXCEPT !.looked = TRUE, !.hit = cachedSuggestion.hit,
                                   !.stats = stats]
        IN  IF Truthy(cachedSuggestion.value)
            THEN [looked EXCEPT !.route = "hit", !.result = cachedSuggestion.value]
            ELSE IF ~canMakeRequest(stats)
            THEN [looked EXCEPT !.route = "denied", !.governor = TRUE]
            ELSE [looked EXCEPT !.route = "context", !.governor = TRUE]

\* entry with a governor that stamps the time of the request it turns down
entry_stamping(userInput) ==
    LET base == [route |-> "disabled", result |-> NULL, looked |-> FALSE,
                 hit |-> FALSE, governor |-> FALSE, stats |-> usageStats,
                 lastRequestTime |-> lastRequestTime]
    IN
    IF ~config.ENABLE_SUGGESTIONS THEN base
    ELSE IF Len(trim(userInput)) < MIN_INPUT_LENGTH
    THEN [base EXCEPT !.route = "short"]
    ELSE
        LET cachedSuggestion == get(userInput)
            stats == IF cachedSuggestion.hit
                     THEN [usageStats EXCEPT !.cachedHits = @ + 1]
                     ELSE usageStats
            looked == [base EXCEPT !.looked = TRUE, !.hit = cachedSuggestion.hit,
                                   !.stats = stats]
        IN  IF Truthy(cachedSuggestion.value)
            THEN [looked EXCEPT !.route = "hit", !.result = cachedSuggestion.value]
            ELSE IF ~canMakeRequest(stats)
            THEN [looked EXCEPT !.route = "denied", !.governor = TRUE,
                                !.lastRequestTime = now]
            ELSE [looked EXCEPT !.route = "context", !.governor = TRUE]

\* getCommandSuggestion up to its first await (lines 55-80): what it returns or
\* goes on to do, whether get() was called and counted a hit, whether the
\* governor was asked, and the usage record and last-request time it leaves
entry(userInput) ==
    LET base == [route |-> "disabled", result |-> NULL, looked |-> FALSE,
                 hit |-> FALSE, governor |-> FALSE, stats |-> usageStats,
                 lastRequestTime |-> lastRequestTime]
    IN
    IF ~config.ENABLE_SUGGESTIONS THEN base
    ELSE IF Len(trim(userInput)) < MIN_INPUT_LENGTH
    THEN [base EXCEPT !.route = "short"]
    ELSE
        LET cachedSuggestion == get(userInput)
            stats == IF cachedSuggestion.hit
                     THEN [usageStats EXCEPT !.cachedHits = @ + 1]
                     ELSE usageStats
            looked == [base EXCEPT !.looked = TRUE, !.hit = cachedSuggestion.hit,
                                   !.stats = stats]
        IN  IF Truthy(cachedSuggestion.value)
            THEN [looked EXCEPT !.route = "hit", !.result = cachedSuggestion.value]
            ELSE IF ~canMakeRequest(stats)
            THEN [looked EXCEPT !.route = "denied", !.governor = TRUE]
            ELSE [looked EXCEPT !.route = "context", !.governor = TRUE]

\* resume with the direct match written to the cache and counted as a request
resume_cachingDirect(rec, contextualResult) ==
    LET same == [call |-> rec, cache |-> cache, stats |-> usageStats,
                 lastRequestTime |-> lastRequestTime]
    IN  IF contextualResult.kind = "string"
        THEN [same EXCEPT !.call = [rec EXCEPT !.pc = "done", !.route = "direct",
                                       !.result = Str(contextualResult.value)],
                          !.cache = MapSet(cache, getCacheKey(rec.input),
                                           contextualResult.value, now),
                          !.stats = [usageStats EXCEPT !.totalRequests = @ + 1,
                                                       !.dailyRequests = @ + 1],
                          !.lastRequestTime = now]
        ELSE IF contextualResult.kind = "threw"
        THEN [same EXCEPT !.call = [rec EXCEPT !.pc = "done",
                                       !.route = "promptError",
                                       !.result = NULL]]
        ELSE [same EXCEPT !.call = [rec EXCEPT !.pc = "post",
                                       !.route = "dispatch",
                                       !.dispatches = @ + 1]]

\* resume without the catch: the exception leaves getCommandSuggestion
resume_uncaught(rec, contextualResult) ==
    LET same == [call |-> rec, cache |-> cache, stats |-> usageStats,
                 lastRequestTime |-> lastRequestTime]
    IN  IF contextualResult.kind = "string"
        THEN [same EXCEPT !.call = [rec EXCEPT !.pc = "done", !.route = "direct",
                                       !.result = Str(contextualResult.value)]]
        ELSE IF contextualResult.kind = "threw"
        THEN [same EXCEPT !.call = [rec EXCEPT !.pc = "raised",
                                       !.route = "promptError"]]
        ELSE [same EXCEPT !.call = [rec EXCEPT !.pc = "post",
                                       !.route = "dispatch",
                                       !.dispatches = @ + 1]]

\* getCommandSuggestion once getContextualSuggestion has settled (lines 82-103
\* and the catch of lines 128-133): a direct match is returned as it is, an
\* exception is swallowed and null returned, a prompt goes to the dispatcher
resume(rec, contextualResult) ==
    LET same == [call |-> rec, cache |-> cache, stats |-> usageStats,
                 lastRequestTime |-> lastRequestTime]
    IN  IF contextualResult.kind = "string"
        THEN [same EXCEPT !.call = [rec EXCEPT !.pc = "done", !.route = "direct",
                                       !.result = Str(contextualResult.value)]]
        ELSE IF contextualResult.kind = "threw"
        THEN [same EXCEPT !.call = [rec EXCEPT !.pc = "done",
                                       !.route = "promptError",
                                       !.result = NULL]]
        ELSE [same EXCEPT !.call = [rec EXCEPT !.pc = "post",
                                       !.route = "dispatch",
                                       !.dispatches = @ + 1]]

\* String.prototype.substring(0, n)
substring0(s, n) == SubSeq(s, 1, IF Len(s) < n THEN Len(s) ELSE n)

\* handleResponse without the cut to MAX_SUGGESTION_LENGTH
handleResponse_untruncated(rec, response) ==
    LET same == [call |-> [rec EXCEPT !.pc = "done", !.response = response],
                 cache |-> cache, stats |-> usageStats,
                 lastRequestTime |-> lastRequestTime,
                 savedCache |-> FALSE, savedUsage |-> FALSE]
    IN  IF response.kind = "noCandidates"
        THEN [same EXCEPT !.call.route = "noCandidate", !.call.result = NULL]
        ELSE IF response.kind = "malformed"
        THEN [same EXCEPT !.call.route = "responseError", !.call.result = NULL]
        ELSE
            LET suggestion == trim(response.text)
                finalSuggestion == suggestion
                stored == set(cache, rec.input, finalSuggestion)
            IN  [same EXCEPT !.call.route = "success",
                             !.call.result = Str(finalSuggestion),
                             !.cache = stored.cache,
                             !.savedCache = stored.saved,
                             !.stats = recordRequest(usageStats, response.tokens),
                             !.lastRequestTime = now,
                             !.savedUsage = TRUE]

\* getCommandSuggestion once the HTTP response has arrived (part_001 lines
\* 105-133, gemini-service-optimized.js lines 62-90): without a first candidate
\* null is returned; a candidate without content.parts[0].text raises a
\* TypeError, which the catch turns into null; otherwise the text is trimmed,
\* cut to MAX_SUGGESTION_LENGTH, cached, counted and returned
handleResponse(rec, response) ==
    LET same == [call |-> [rec EXCEPT !.pc = "done", !.response = response],
                 cache |-> cache, stats |-> usageStats,
                 lastRequestTime |-> lastRequestTime,
                 savedCache |-> FALSE, savedUsage |-> FALSE]
    IN  IF response.kind = "noCandidates"
        THEN [same EXCEPT !.call.route = "noCandidate", !.call.result = NULL]
        ELSE IF response.kind = "malformed"
        THEN [same EXCEPT !.call.route = "responseError", !.call.result = NULL]
        ELSE
            LET suggestion == trim(response.text)
                finalSuggestion == substring0(suggestion, MAX_SUGGESTION_LENGTH)
                stored == set(cache, rec.input, finalSuggestion)
            IN  [same EXCEPT !.call.route = "success",
                             !.call.result = Str(finalSuggestion),
                             !.cache = stored.cache,
                             !.savedCache = stored.saved,
                             !.stats = recordRequest(usageStats, response.tokens),
                             !.lastRequestTime = now,
                             !.savedUsage = TRUE]

\* rotateApiKey stepping over a credential
rotateApiKey_skipping(index) == (index + 2) % apiKeys

\* rotateApiKey without the wrap to the start of the pool
rotateApiKey_unwrapped(index) == index + 1

\* rotateApiKey (lines 30-32)
rotateApiKey(index) == (index + 1) % apiKeys

\* ContextManager.maxFileContext
maxFileContext == 20

NoResponse == [kind |-> "none", text |-> <<>>, tokens |-> 0]

IdleCall == [pc |-> "idle", input |-> <<>>, result |-> NULL, route |-> "none",
             looked |-> FALSE, hit |-> FALSE, governor |-> FALSE,
             dispatches |-> 0, response |-> NoResponse]
\* the constructor's pool (lines 16-19), as its size, from the number of
\* credentials GEMINI_API_KEYS lists: an empty list gives way to the one-element
\* pool [config.GEMINI_API_KEY]
poolSize(listed) == IF listed > 0 THEN listed ELSE 1

IdleSend == [pc |-> "idle", attempt |-> 0, apiKey |-> 0, startIndex |-> 0,
             requests |-> 0, response |-> "none", alone |-> TRUE,
             usedKeys |-> {}, reused |-> FALSE]

\* the terminal as its constructor leaves it (context-aware-terminal.js lines
\* 8-24); timer is whether suggestionTimeout is pending and due when it fires;
\* shownFor is the input the request behind the suggestion was made for
IdleTerm == [currentInput |-> <<>>, cursorPosition |-> 0, suggestion |-> <<>>,
             timer |-> FALSE, due |-> 0, isProcessing |-> FALSE,
             shownFor |-> <<>>, keystrokes |-> 0]

\* no CacheManager method has been called directly yet
NoOp == [name |-> "none", input |-> <<>>, suggestion |-> <<>>, value |-> NULL,
         allowed |-> FALSE, daily |-> 0,
         rate |-> [text |-> FALSE, tenths |-> 0], at |-> 0, calls |-> 0,
         before |-> "none", beforeInput |-> <<>>,
         threw |-> FALSE, parts |-> <<>>, recent |-> <<>>]

\* ---------------------------------------------------------- persisted files
NoUsage == [totalRequests |-> 0, cachedHits |-> 0, dailyRequests |-> 0,
            lastReset |-> StartTime \div MS_PER_DAY, costEstimate |-> 0]

Entry(key, suggestion, timestamp) ==
    [key |-> key, suggestion |-> suggestion, timestamp |-> timestamp]

\* suggestion-cache.json as an earlier run may have left it
CacheFiles == {
    [present |-> FALSE, entries |-> <<>>],
    [present |-> TRUE,
     entries |-> <<Entry(S_git, S_git_status, StartTime - CACHE_DURATION + 1),
                   Entry(S_xyz, S_xyz, StartTime - CACHE_DURATION)>>],
    [present |-> TRUE,
     entries |-> <<Entry(S_git, S_git_status, StartTime - 1000),
                   Entry(S_xyz, <<>>, StartTime - 1000)>>] }

\* usage.json as an earlier run may have left it
UsageFiles == {
    [present |-> FALSE, data |-> NoUsage],
    [present |-> TRUE,
     data |-> [NoUsage EXCEPT !.totalRequests = MAX_DAILY_REQUESTS,
                              !.dailyRequests = MAX_DAILY_REQUESTS]] }

\* config.js as shipped, and with either feature switched off
Configs == {
    [ENABLE_SUGGESTIONS |-> TRUE, ENABLE_CACHE |-> TRUE],
    [ENABLE_SUGGESTIONS |-> FALSE, ENABLE_CACHE |-> TRUE],
    [ENABLE_SUGGESTIONS |-> TRUE, ENABLE_CACHE |-> FALSE] }

\* --------------------------------------------------------------------- Init
\* the state the constructors leave: empty cache, zeroed usage record, cursor
\* at the first credential, both loads issued and pending
InitService ==
    /\ currentKeyIndex = 0
    /\ cache = <<>>
    /\ usageStats = NoUsage
    /\ lastRequestTime = 0
    /\ ctx = [fileContext |-> <<>>, gitContext |-> NoGit, nodeContext |-> NoNode,
              recentCommands |-> <<>>]
    /\ now = StartTime
    /\ ticks = 0
    /\ call = [c \in CallSlots |-> IdleCall]
    /\ term = IdleTerm
    /\ op = NoOp
    /\ started = 0
    /\ send = [s \in Sends |-> IdleSend]
    /\ sendsStarted = 0
    /\ cacheWrites = <<>>
    /\ usageWrites = <<>>

Init ==
    /\ InitService
    /\ config \in Configs
    /\ apiKeys = 1
    /\ cacheFile \in CacheFiles
    /\ usageFile \in UsageFiles
    /\ loading = [cache |-> TRUE, usage |-> TRUE]
    /\ env \in Envs

\* ------------------------------------------------------------------ actions
\* loadCache completes (lines 20-39 of cache-manager.js)
LoadCache ==
    /\ loading.cache
    /\ loading' = [loading EXCEPT !.cache = FALSE]
    /\ cache' = IF cacheFile.present
                THEN loadEntries(cache, cacheFile.entries)
                ELSE cache
    /\ op' = [op EXCEPT !.name = "loadCache"]
    /\ UNCHANGED <<config, apiKeys, currentKeyIndex, usageStats, lastRequestTime,
                   cacheFile, usageFile, cacheWrites,
                   usageWrites, ctx, env, now, ticks, call, started,
                   send, sendsStarted,
                   term>>

\* loadUsageStats completes (lines 58-76)
LoadUsageStats ==
    /\ loading.usage
    /\ loading' = [loading EXCEPT !.usage = FALSE]
    /\ usageStats' = IF usageFile.present
                     THEN loadedUsage(usageFile.data)
                     ELSE usageStats
    /\ UNCHANGED <<config, apiKeys, currentKeyIndex, cache, lastRequestTime,
                   cacheFile, usageFile, cacheWrites,
                   usageWrites, ctx, env, now, ticks, call, started,
                   send, sendsStarted,
                   term, op>>

\* the clock moves on
Deltas == {1, CACHE_DURATION - 1}

advanceClock(d, limit) ==
    /\ ticks < limit
    /\ ticks' = ticks + 1
    /\ now' = now + d
    /\ UNCHANGED <<config, apiKeys, currentKeyIndex, cache, usageStats,
                   lastRequestTime, cacheFile, usageFile, cacheWrites,
                   usageWrites, loading, ctx, env,
                   call, started, send, sendsStarted,
                   term, op>>

Tick(d) == advanceClock(d, MaxTicks)

\* getCommandSuggestion(userInput) runs to its first await (part_001 lines
\* 55-80), or returns before it; limit bounds the calls of one behaviour
callService(c, userInput, limit) ==
    /\ call[c].pc = "idle"
    /\ \A d \in CallSlots : d < c => call[d].pc # "idle"
    /\ started < limit
    /\ started' = started + 1
    /\ \E e \in {entry(userInput)} :
           /\ usageStats' = e.stats
           /\ lastRequestTime' = e.lastRequestTime
           /\ call' = [call EXCEPT ![c] =
                  [IdleCall EXCEPT
                      !.pc = IF e.route = "context" THEN "readdir" ELSE "done",
                      !.input = userInput, !.result = e.result,
                      !.route = e.route, !.looked = e.looked,
                      !.hit = e.hit, !.governor = e.governor]]
    /\ UNCHANGED <<config, apiKeys, currentKeyIndex, cache, cacheFile, usageFile,
                   cacheWrites, usageWrites, loading, ctx, env, now, ticks,
                   send, sendsStarted, op>>

\* getCommandSuggestion(userInput) is called
GetCommandSuggestion(c, userInput) ==
    /\ callService(c, userInput, MaxStarted)
    /\ UNCHANGED term

\* updateFileContext with no catch of its own: a listing that fails leaves
\* updateContext through its outer catch, before the repository is queried
UpdateFileContext_uncaught(c) ==
    /\ call[c].pc = "readdir"
    /\ ctx' = [ctx EXCEPT !.fileContext =
                   IF env.readable
                   THEN SubSeq(env.files, 1,
                               IF Len(env.files) < maxFileContext
                               THEN Len(env.files) ELSE maxFileContext)
                   ELSE @]
    /\ call' = [call EXCEPT ![c].pc = IF env.readable THEN "git" ELSE "node"]
    /\ UNCHANGED <<config, apiKeys, currentKeyIndex, cache, usageStats,
                   lastRequestTime, cacheFile, usageFile, cacheWrites,
                   usageWrites, loading, env, now,
                   ticks, started, send, sendsStarted,
                   term, op>>

\* updateFileContext completes (context-manager.js lines 40-69)
UpdateFileContext(c) ==
    /\ call[c].pc = "readdir"
    /\ ctx' = [ctx EXCEPT !.fileContext =
                   IF env.readable
                   THEN SubSeq(env.files, 1,
                               IF Len(env.files) < maxFileContext
                               THEN Len(env.files) ELSE maxFileContext)
                   ELSE <<>>]
    /\ call' = [call EXCEPT ![c].pc = "git"]
    /\ UNCHANGED <<config, apiKeys, currentKeyIndex, cache, usageStats,
                   lastRequestTime, cacheFile, usageFile, cacheWrites,
                   usageWrites, loading, env, now,
                   ticks, started, send, sendsStarted,
                   term, op>>

\* updateGitContext completes (lines 71-93)
UpdateGitContext(c) ==
    /\ call[c].pc = "git"
    /\ ctx' = [ctx EXCEPT !.gitContext =
                   IF env.isGitRepo
                   THEN [isNull |-> FALSE, isGitRepo |-> TRUE,
                         hasChanges |-> env.hasChanges]
                   ELSE [isNull |-> FALSE, isGitRepo |-> FALSE,
                         hasChanges |-> FALSE]]
    /\ call' = [call EXCEPT ![c].pc = "node"]
    /\ UNCHANGED <<config, apiKeys, currentKeyIndex, cache, usageStats,
                   lastRequestTime, cacheFile, usageFile, cacheWrites,
                   usageWrites, loading, env, now,
                   ticks, started, send, sendsStarted,
                   term, op>>

\* updateNodeContext completes (lines 95-111); getContextualSuggestion then
\* finishes (lines 230-248) and getCommandSuggestion resumes (part_001 lines
\* 82-103 and the catch at 128-133)
UpdateNodeContext(c) ==
    /\ call[c].pc = "node"
    /\ ctx' = [ctx EXCEPT !.nodeContext =
                   [isNull |-> FALSE, hasPackageJson |-> env.hasPackageJson,
                    scripts |-> IF env.hasPackageJson THEN env.scripts ELSE 0]]
    /\ \E r \in {resume(call[c], getContextualSuggestion(ctx', call[c].input))} :
           /\ call' = [call EXCEPT ![c] = r.call]
           /\ cache' = r.cache
           /\ usageStats' = r.stats
           /\ lastRequestTime' = r.lastRequestTime
    /\ UNCHANGED <<config, apiKeys, currentKeyIndex, cacheFile, usageFile, cacheWrites,
                   usageWrites,
                   loading, env, now, ticks, started, send, sendsStarted,
                   term, op>>

\* the caller takes the result of a finished call
Return(c) ==
    /\ call[c].pc = "done"
    /\ call' = [call EXCEPT ![c] = IdleCall]
    /\ UNCHANGED <<config, apiKeys, currentKeyIndex, cache, usageStats,
                   lastRequestTime, cacheFile, usageFile, cacheWrites,
                   usageWrites, loading, ctx, env,
                   now, ticks, started, send, sendsStarted,
                   term, op>>

Next ==
    \/ LoadCache
    \/ LoadUsageStats
    \/ \E d \in Deltas : Tick(d)
    \/ \E c \in Calls, userInput \in Inputs : GetCommandSuggestion(c, userInput)
    \/ \E c \in Calls : UpdateFileContext(c)
    \/ \E c \in Calls : UpdateGitContext(c)
    \/ \E c \in Calls : UpdateNodeContext(c)
    \/ \E c \in Calls : Return(c)

Spec == Init /\ [][Next]_vars

\* ---------------------------------------------------- postWithKeyRotation
\* the credential-rotating dispatcher, called on its own
ResponseKinds == {"valid", "noCandidates"}

\* attemptPost giving up one attempt late
attemptPost_late(rec, attempt, index) ==
    IF attempt > apiKeys
    THEN [rec EXCEPT !.pc = "threw", !.attempt = attempt]
    ELSE [rec EXCEPT !.pc = "await", !.attempt = attempt, !.apiKey = index,
                     !.requests = @ + 1,
                     !.reused = @ \/ index \in rec.usedKeys,
                     !.usedKeys = @ \cup {index}]

\* postWithKeyRotation(payload, headers, attempt) up to its await (lines 34-46):
\* throws when attempt has reached the pool size, else posts with the
\* credential under the cursor
attemptPost(rec, attempt, index) ==
    IF attempt >= apiKeys
    THEN [rec EXCEPT !.pc = "threw", !.attempt = attempt]
    ELSE [rec EXCEPT !.pc = "await", !.attempt = attempt, !.apiKey = index,
                     !.requests = @ + 1,
                     !.reused = @ \/ index \in rec.usedKeys,
                     !.usedKeys = @ \cup {index}]

\* the catch leaving the cursor on the credential that failed last when no
\* attempt is left
retry_keepingLast(rec, index) ==
    LET next == IF rec.attempt + 1 >= apiKeys THEN index ELSE rotateApiKey(index)
    IN  [send |-> attemptPost(rec, rec.attempt + 1, next), index |-> next]

\* the catch of lines 48-52: rotate, then try again with attempt + 1
retry(rec, index) ==
    LET next == rotateApiKey(index)
    IN  [send |-> attemptPost(rec, rec.attempt + 1, next), index |-> next]

\* postWithKeyRotation(payload, headers) is called
PostWithKeyRotation(s) ==
    /\ send[s].pc = "idle"
    /\ \A t \in Sends : t < s => send[t].pc # "idle"
    /\ sendsStarted < MaxSendsStarted
    /\ sendsStarted' = sendsStarted + 1
    /\ LET overlap == \E t \in Sends : send[t].pc = "await"
           mine == attemptPost([IdleSend EXCEPT !.startIndex = currentKeyIndex,
                                                !.alone = ~overlap],
                               0, currentKeyIndex)
       IN  send' = [t \in Sends |->
                       IF t = s THEN mine
                       ELSE IF send[t].pc = "await"
                            THEN [send[t] EXCEPT !.alone = FALSE]
                            ELSE send[t]]
    /\ UNCHANGED <<config, apiKeys, currentKeyIndex, cache, usageStats,
                   lastRequestTime, cacheFile, usageFile, cacheWrites,
                   usageWrites, loading, ctx, env,
                   now, ticks, call, started,
                   term, op>>

\* axios.post resolves: the response is returned (line 47)
HttpResponse(s, kind) ==
    /\ send[s].pc = "await"
    /\ send' = [send EXCEPT ![s].pc = "returned", ![s].response = kind]
    /\ UNCHANGED <<config, apiKeys, currentKeyIndex, cache, usageStats,
                   lastRequestTime, cacheFile, usageFile, cacheWrites,
                   usageWrites, loading, ctx, env,
                   now, ticks, call, started, sendsStarted,
                   term, op>>

\* axios.post rejects (network, status, timeout): lines 48-52
HttpError(s) ==
    /\ send[s].pc = "await"
    /\ \E r \in {retry(send[s], currentKeyIndex)} :
           /\ send' = [send EXCEPT ![s] = r.send]
           /\ currentKeyIndex' = r.index
    /\ UNCHANGED <<config, apiKeys, cache, usageStats, lastRequestTime,
                   cacheFile, usageFile, cacheWrites,
                   usageWrites, loading, ctx, env, now, ticks, call,
                   started, sendsStarted,
                   term, op>>

\* the caller takes the response or the exhaustion error
SendReturn(s) ==
    /\ send[s].pc \in {"returned", "threw"}
    /\ send' = [send EXCEPT ![s] = IdleSend]
    /\ UNCHANGED <<config, apiKeys, currentKeyIndex, cache, usageStats,
                   lastRequestTime, cacheFile, usageFile, cacheWrites,
                   usageWrites, loading, ctx, env,
                   now, ticks, call, started, sendsStarted,
                   term, op>>

SendInit ==
    /\ InitService
    /\ config = [ENABLE_SUGGESTIONS |-> TRUE, ENABLE_CACHE |-> TRUE]
    /\ apiKeys \in {poolSize(listed) : listed \in 0..MaxKeys}
    /\ cacheFile = [present |-> FALSE, entries |-> <<>>]
    /\ usageFile = [present |-> FALSE, data |-> NoUsage]
    /\ loading = [cache |-> FALSE, usage |-> FALSE]
    /\ env \in {e \in Envs : ~e.readable}

SendNext ==
    \/ \E s \in Sends : PostWithKeyRotation(s)
    \/ \E s \in Sends, kind \in ResponseKinds : HttpResponse(s, kind)
    \/ \E s \in Sends : HttpError(s)
    \/ \E s \in Sends : SendReturn(s)

SendSpec == SendInit /\ [][SendNext]_vars

\* ------------------------------------------- the single-credential service
\* src/gemini-service-optimized.js: the same pipeline with one credential, an
\* inline prompt and a single axios.post in place of the context step and the
\* dispatcher; its response handling is that of part_001, line for line

\* response bodies the endpoint may answer with: text is
\* candidates[0].content.parts[0].text, tokens usageMetadata.totalTokenCount
\* (0 when absent)
T_empty == <<>>
T_Git_Status_padded ==
    <<" ", "G", "i", "t", " ", "S", "t", "a", "t", "u", "s", " ">>
T_long ==
    <<"g", "i", "t", " ", "c", "o", "m", "m", "i", "t", " ", "-", "m", " ", "'",
      "i", "n", "i", "t", "'", " ", "-", "-", "a", "l", "l", " ", "-", "-", "v",
      "e", "r", "b", "o", "s", "e">>

Responses == {
    [kind |-> "noCandidates", text |-> <<>>, tokens |-> 0],
    [kind |-> "malformed", text |-> <<>>, tokens |-> 0],
    [kind |-> "text", text |-> T_empty, tokens |-> 7],
    [kind |-> "text", text |-> T_Git_Status_padded, tokens |-> 0],
    [kind |-> "text", text |-> T_long, tokens |-> 12] }

\* getCommandSuggestion(userInput) runs to its await of axios.post (lines
\* 14-60), or returns before it; limit bounds the calls of one behaviour
callInline(c, userInput, limit) ==
    /\ call[c].pc = "idle"
    /\ \A d \in CallSlots : d < c => call[d].pc # "idle"
    /\ started < limit
    /\ started' = started + 1
    /\ \E e \in {entry(userInput)} :
           /\ usageStats' = e.stats
           /\ lastRequestTime' = e.lastRequestTime
           /\ call' = [call EXCEPT ![c] =
                  [IdleCall EXCEPT
                      !.pc = IF e.route = "context" THEN "http" ELSE "done",
                      !.input = userInput, !.result = e.result,
                      !.route = IF e.route = "context" THEN "request"
                                ELSE e.route,
                      !.looked = e.looked, !.hit = e.hit,
                      !.governor = e.governor,
                      !.dispatches = IF e.route = "context" THEN 1 ELSE 0]]
    /\ UNCHANGED <<config, apiKeys, currentKeyIndex, cache, cacheFile, usageFile,
                   cacheWrites, usageWrites, loading, ctx, env, now, ticks,
                   send, sendsStarted,
                   term, op>>

\* getCommandSuggestion(userInput) is called
GetCommandSuggestionInline(c, userInput) == callInline(c, userInput, MaxStarted)

\* axios.post resolves and the method runs to its end (lines 62-84, or the
\* catch of lines 85-90); set and recordRequest start their writes
AxiosResolve(c, response) ==
    /\ call[c].pc = "http"
    /\ \E r \in {handleResponse(call[c], response)} :
           /\ call' = [call EXCEPT ![c] = r.call]
           /\ cache' = r.cache
           /\ usageStats' = r.stats
           /\ lastRequestTime' = r.lastRequestTime
           /\ cacheWrites' = IF r.savedCache THEN Append(cacheWrites, r.cache)
                             ELSE cacheWrites
           /\ usageWrites' = IF r.savedUsage THEN Append(usageWrites, r.stats)
                             ELSE usageWrites
    /\ UNCHANGED <<config, apiKeys, currentKeyIndex, cacheFile, usageFile,
                   loading, ctx, env, now, ticks, started, send, sendsStarted,
                   term, op>>

\* axios.post rejects (network, status, the 5 s timeout): the catch of lines
\* 85-90 returns null
AxiosReject(c) ==
    /\ call[c].pc = "http"
    /\ call' = [call EXCEPT ![c].pc = "done", ![c].route = "requestError",
                            ![c].result = NULL]
    /\ UNCHANGED <<config, apiKeys, currentKeyIndex, cache, usageStats,
                   lastRequestTime, cacheFile, usageFile, cacheWrites,
                   usageWrites, loading, ctx, env, now, ticks, started, send,
                   sendsStarted,
                   term, op>>

\* s without its i-th element
RemoveAt(s, i) == SubSeq(s, 1, i - 1) \o SubSeq(s, i + 1, Len(s))

\* saveCache undoing the mutation when its write fails: the map goes back to
\* what the file holds
SaveCacheSettles_rollingBack(i) ==
    /\ i \in 1..Len(cacheWrites)
    /\ cacheFile' = IF env.writable
                    THEN [present |-> TRUE, entries |-> cacheWrites[i]]
                    ELSE cacheFile
    /\ cache' = IF env.writable THEN cache ELSE cacheFile.entries
    /\ cacheWrites' = RemoveAt(cacheWrites, i)
    /\ UNCHANGED <<config, apiKeys, currentKeyIndex, usageStats,
                   lastRequestTime, usageFile, usageWrites, loading, ctx, env,
                   now, ticks, call, started, send, sendsStarted,
                   term, op>>

\* a fs.writeFile started by saveCache settles (cache-manager.js lines 41-56):
\* the file holds the snapshot, or the error is swallowed and it is unchanged
SaveCacheSettles(i) ==
    /\ i \in 1..Len(cacheWrites)
    /\ cacheFile' = IF env.writable
                    THEN [present |-> TRUE, entries |-> cacheWrites[i]]
                    ELSE cacheFile
    /\ cacheWrites' = RemoveAt(cacheWrites, i)
    /\ UNCHANGED <<config, apiKeys, currentKeyIndex, cache, usageStats,
                   lastRequestTime, usageFile, usageWrites, loading, ctx, env,
                   now, ticks, call, started, send, sendsStarted,
                   term, op>>

\* a fs.writeFile started by saveUsageStats settles (lines 78-87)
SaveUsageStatsSettles(i) ==
    /\ i \in 1..Len(usageWrites)
    /\ usageFile' = IF env.writable
                    THEN [present |-> TRUE, data |-> usageWrites[i]]
                    ELSE usageFile
    /\ usageWrites' = RemoveAt(usageWrites, i)
    /\ UNCHANGED <<config, apiKeys, currentKeyIndex, cache, usageStats,
                   lastRequestTime, cacheFile, cacheWrites, loading, ctx, env,
                   now, ticks, call, started, send, sendsStarted,
                   term, op>>

\* the inputs typed at this service, and the time between two events
InlineInputs == {S_Git_lead, S_xyz}
InlineDeltas == {REQUEST_COOLDOWN}

\* this service never looks at its ContextManager: one directory stands for
\* all, on a disk that takes writes or refuses them; usage.json is first
\* written by the service itself
InlineInit ==
    /\ InitService
    /\ config \in {k \in Configs : k.ENABLE_SUGGESTIONS}
    /\ apiKeys = 1
    /\ cacheFile \in CacheFiles
    /\ usageFile = [present |-> FALSE, data |-> NoUsage]
    /\ loading = [cache |-> TRUE, usage |-> TRUE]
    /\ env \in {[e EXCEPT !.writable = w] :
                    e \in {f \in Envs : ~f.readable}, w \in BOOLEAN}

InlineNext ==
    \/ LoadCache
    \/ LoadUsageStats
    \/ \E d \in InlineDeltas : Tick(d)
    \/ \E c \in Calls, userInput \in InlineInputs :
          GetCommandSuggestionInline(c, userInput)
    \/ \E c \in Calls, response \in Responses : AxiosResolve(c, response)
    \/ \E c \in Calls : AxiosReject(c)
    \/ \E c \in Calls : Return(c)
    \/ \E i \in 1..MaxStarted : SaveCacheSettles(i)
    \/ \E i \in 1..MaxStarted : SaveUsageStatsSettles(i)

InlineSpec == InlineInit /\ [][InlineNext]_vars

\* --------------------------------------------------------- repeated calls
\* the single-credential service called again once the call before has
\* returned; the calls are kept as they ended

\* getCommandSuggestion(userInput) is called after every earlier call returned
GetCommandSuggestionAgain(c, userInput) ==
    /\ \A d \in CallSlots : call[d].pc \in {"idle", "done"}
    /\ callInline(c, userInput, MaxRepeats)

RepeatNext ==
    \/ LoadCache
    \/ LoadUsageStats
    \/ \E d \in InlineDeltas : Tick(d)
    \/ \E c \in CallSlots, userInput \in InlineInputs :
          GetCommandSuggestionAgain(c, userInput)
    \/ \E c \in CallSlots, response \in Responses : AxiosResolve(c, response)
    \/ \E c \in CallSlots : AxiosReject(c)
    \/ \E i \in 1..MaxRepeats : SaveCacheSettles(i)
    \/ \E i \in 1..MaxRepeats : SaveUsageStatsSettles(i)

RepeatSpec == InlineInit /\ [][RepeatNext]_vars

\* ------------------------------------------------------ overlapping calls
\* the single-credential service called again while a call is awaiting its
\* response, as a terminal does when a key is pressed while the request of the
\* keys before it is in flight (cost-optimized-terminal.js lines 139-175)

\* usage.json of today, one request short of the daily limit
NearLimitUsageFile ==
    [present |-> TRUE,
     data |-> [NoUsage EXCEPT !.totalRequests = MAX_DAILY_REQUESTS - 1,
                              !.dailyRequests = MAX_DAILY_REQUESTS - 1]]

\* getCommandSuggestion(userInput) is called, whatever the calls before it
\* are doing
GetCommandSuggestionMeanwhile(c, userInput) == callInline(c, userInput, MaxRepeats)

OverlapInit ==
    /\ InitService
    /\ config \in {k \in Configs : k.ENABLE_SUGGESTIONS}
    /\ apiKeys = 1
    /\ cacheFile = [present |-> FALSE, entries |-> <<>>]
    /\ usageFile \in {[present |-> FALSE, data |-> NoUsage], NearLimitUsageFile}
    /\ loading = [cache |-> TRUE, usage |-> TRUE]
    /\ env \in {f \in Envs : ~f.readable}

OverlapNext ==
    \/ LoadCache
    \/ LoadUsageStats
    \/ \E d \in InlineDeltas : Tick(d)
    \/ \E c \in CallSlots, userInput \in InlineInputs :
          GetCommandSuggestionMeanwhile(c, userInput)
    \/ \E c \in CallSlots, response \in Responses : AxiosResolve(c, response)
    \/ \E c \in CallSlots : AxiosReject(c)
    \/ \E i \in 1..MaxRepeats : SaveCacheSettles(i)
    \/ \E i \in 1..MaxRepeats : SaveUsageStatsSettles(i)

OverlapSpec == OverlapInit /\ [][OverlapNext]_vars

\* ------------------------------------------------------------- the terminal
\* ContextAwareTerminal (src/context-aware-terminal.js) over the key-rotating
\* service; CostOptimizedTerminal has the same handlers

\* the printable keys pressed
Chars == {"g", "i", "t"}

\* handlers and timers run one at a time: once a call has settled, the
\* continuation awaiting it runs before any key or timer is handled
Settled == \A c \in TermCalls : call[c].pc # "done"

\* requestSuggestion (lines 139-172): clearTimeout, then setTimeout with
\* SUGGESTION_DELAY
requestSuggestion(tm) == [tm EXCEPT !.timer = TRUE, !.due = now + SUGGESTION_DELAY]

\* what redraw draws after the input (lines 191-199): the rest of the
\* suggestion past the length of the line
displayed(tm) ==
    IF tm.suggestion # <<>> /\ tm.suggestion # tm.currentInput
    THEN SubSeq(tm.suggestion, Len(tm.currentInput) + 1, Len(tm.suggestion))
    ELSE <<>>

\* a printable key: addCharacter (lines 120-128)
AddCharacter(char) ==
    /\ Settled
    /\ term.keystrokes < MaxKeystrokes
    /\ term' = requestSuggestion(
           [term EXCEPT
               !.currentInput =
                   SubSeq(@, 1, term.cursorPosition) \o <<char>>
                   \o SubSeq(@, term.cursorPosition + 1, Len(@)),
               !.cursorPosition = @ + 1,
               !.keystrokes = @ + 1])
    /\ UNCHANGED <<config, apiKeys, currentKeyIndex, cache, usageStats,
                   lastRequestTime, cacheFile, usageFile, cacheWrites,
                   usageWrites, loading, ctx, env, now, ticks, call, started,
                   send, sendsStarted, op>>

\* the backspace key: handleBackspace (lines 109-118)
HandleBackspace ==
    /\ Settled
    /\ term.keystrokes < MaxKeystrokes
    /\ term.cursorPosition > 0
    /\ term' = requestSuggestion(
           [term EXCEPT
               !.currentInput =
                   SubSeq(@, 1, term.cursorPosition - 1)
                   \o SubSeq(@, term.cursorPosition + 1, Len(@)),
               !.cursorPosition = @ - 1,
               !.keystrokes = @ + 1])
    /\ UNCHANGED <<config, apiKeys, currentKeyIndex, cache, usageStats,
                   lastRequestTime, cacheFile, usageFile, cacheWrites,
                   usageWrites, loading, ctx, env, now, ticks, call, started,
                   send, sendsStarted, op>>

\* the tab key: acceptSuggestion (lines 130-137)
AcceptSuggestion ==
    /\ Settled
    /\ term.keystrokes < MaxKeystrokes
    /\ term.suggestion # <<>>
    /\ term' = [term EXCEPT !.currentInput = term.suggestion,
                            !.cursorPosition = Len(term.suggestion),
                            !.suggestion = <<>>,
                            !.keystrokes = @ + 1]
    /\ UNCHANGED <<config, apiKeys, currentKeyIndex, cache, usageStats,
                   lastRequestTime, cacheFile, usageFile, cacheWrites,
                   usageWrites, loading, ctx, env, now, ticks, call, started,
                   send, sendsStarted, op>>

\* nothing happens until the pending timer is due
TimerDue ==
    /\ Settled
    /\ term.timer
    /\ now < term.due
    /\ now' = term.due
    /\ UNCHANGED <<config, apiKeys, currentKeyIndex, cache, usageStats,
                   lastRequestTime, cacheFile, usageFile, cacheWrites,
                   usageWrites, loading, ctx, env, ticks, call, started, send,
                   sendsStarted, term, op>>

\* the timer fires on a line too short (lines 145-149)
TimerFiresShort ==
    /\ Settled
    /\ term.timer
    /\ now >= term.due
    /\ Len(trim(term.currentInput)) < MIN_INPUT_LENGTH
    /\ term' = [term EXCEPT !.timer = FALSE, !.suggestion = <<>>]
    /\ UNCHANGED <<config, apiKeys, currentKeyIndex, cache, usageStats,
                   lastRequestTime, cacheFile, usageFile, cacheWrites,
                   usageWrites, loading, ctx, env, now, ticks, call, started,
                   send, sendsStarted, op>>

\* the timer fires (lines 144-157): isProcessing is set and
\* getCommandSuggestion is called with the line as it is now
TimerFires(c) ==
    /\ Settled
    /\ term.timer
    /\ now >= term.due
    /\ Len(trim(term.currentInput)) >= MIN_INPUT_LENGTH
    /\ term' = [term EXCEPT !.timer = FALSE, !.isProcessing = TRUE]
    /\ callService(c, term.currentInput, MaxTermStarted)

\* the awaited call has settled (lines 158-165): isProcessing is cleared and
\* the result becomes the suggestion unless it is empty or equal to the line
SuggestionArrives(c) ==
    /\ call[c].pc = "done"
    /\ term' = [term EXCEPT
           !.isProcessing = FALSE,
           !.suggestion =
               IF Truthy(call[c].result) /\ call[c].result.str # term.currentInput
               THEN call[c].result.str
               ELSE <<>>,
           !.shownFor = call[c].input]
    /\ call' = [call EXCEPT ![c] = IdleCall]
    /\ UNCHANGED <<config, apiKeys, currentKeyIndex, cache, usageStats,
                   lastRequestTime, cacheFile, usageFile, cacheWrites,
                   usageWrites, loading, ctx, env, now, ticks, started, send,
                   sendsStarted, op>>

\* the terminal is started in a git work tree, with or without a package.json
TermInit ==
    /\ InitService
    /\ config = [ENABLE_SUGGESTIONS |-> TRUE, ENABLE_CACHE |-> TRUE]
    /\ apiKeys = 1
    /\ cacheFile \in {f \in CacheFiles :
                         \A i \in 1..Len(f.entries) :
                             StartTime - f.entries[i].timestamp < CACHE_DURATION - 1}
    /\ usageFile = [present |-> FALSE, data |-> NoUsage]
    /\ loading = [cache |-> TRUE, usage |-> TRUE]
    /\ env \in {e \in Envs : e.isGitRepo}

TermNext ==
    \/ LoadCache
    \/ LoadUsageStats
    \/ \E char \in Chars : AddCharacter(char)
    \/ HandleBackspace
    \/ AcceptSuggestion
    \/ TimerDue
    \/ TimerFiresShort
    \/ \E c \in TermCalls : TimerFires(c)
    \/ \E c \in TermCalls : UpdateFileContext(c)
    \/ \E c \in TermCalls : UpdateGitContext(c)
    \/ \E c \in TermCalls : UpdateNodeContext(c)
    \/ \E c \in TermCalls : SuggestionArrives(c)

TermSpec == TermInit /\ [][TermNext]_vars

\* ------------------------------------------------ CacheManager, directly
\* the exported class used through its own methods (cache-manager.js), while
\* the read of usage.json and the writes of suggestion-cache.json are pending

\* the inputs handed to set (three keys) and to get (another spelling of one
\* of them, and one spelled the same), and the suggestion stored: one that no
\* file of an earlier run holds
SetInputs == {S_gi, S_Git_lead, S_xyz}
GetInputs == {S_git, S_xyz}
S_git_stash == <<"g", "i", "t", " ", "s", "t", "a", "s", "h">>
Suggestions == {S_git_stash}

\* the record of a direct call: what ran, and what ran before it
called(name, input) ==
    [NoOp EXCEPT !.name = name, !.input = input, !.at = now,
                 !.calls = op.calls + 1,
                 !.before = op.name, !.beforeInput = op.input]

\* set(input, suggestion) is called (lines 108-125); saveCache starts a write
CacheSet(input, suggestion) ==
    /\ op.calls < MaxOps
    /\ \E r \in {set(cache, input, suggestion)} :
           /\ cache' = r.cache
           /\ cacheWrites' = IF r.saved THEN Append(cacheWrites, r.cache)
                             ELSE cacheWrites
    /\ op' = [called("set", input) EXCEPT !.suggestion = suggestion]
    /\ UNCHANGED <<config, apiKeys, currentKeyIndex, usageStats,
                   lastRequestTime, cacheFile, usageFile, usageWrites, loading,
                   ctx, env, now, ticks, call, started, send, sendsStarted,
                   term>>

\* get(input) is called (lines 94-106)
CacheGet(input) ==
    /\ op.calls < MaxOps
    /\ \E g \in {get(input)} :
           /\ usageStats' = IF g.hit
                            THEN [usageStats EXCEPT !.cachedHits = @ + 1]
                            ELSE usageStats
           /\ op' = [called("get", input) EXCEPT !.value = g.value]
    /\ UNCHANGED <<config, apiKeys, currentKeyIndex, cache, lastRequestTime,
                   cacheFile, usageFile, cacheWrites, usageWrites, loading,
                   ctx, env, now, ticks, call, started, send, sendsStarted,
                   term>>

\* the time between two events: one millisecond, or one short of the TTL
CacheDeltas == {1, CACHE_DURATION - 1}

CacheInit ==
    /\ InitService
    /\ config \in {k \in Configs : k.ENABLE_SUGGESTIONS}
    /\ apiKeys = 1
    /\ cacheFile \in CacheFiles
    /\ usageFile = [present |-> FALSE, data |-> NoUsage]
    /\ loading = [cache |-> TRUE, usage |-> TRUE]
    /\ env \in {f \in Envs : ~f.readable}

CacheNext ==
    \/ LoadCache
    \/ \E d \in CacheDeltas : advanceClock(d, MaxElapses)
    \/ \E input \in SetInputs, suggestion \in Suggestions :
          CacheSet(input, suggestion)
    \/ \E input \in GetInputs : CacheGet(input)

CacheSpec == CacheInit /\ [][CacheNext]_vars

\* ------------------------------------------------ with the cache disabled
\* the CacheManager under ENABLE_CACHE = false, its writes landing

\* clearCache() is called (lines 170-173): the map is emptied and saveCache
\* starts a write, whatever ENABLE_CACHE says
ClearCache ==
    /\ op.calls < MaxOps
    /\ cache' = <<>>
    /\ cacheWrites' = Append(cacheWrites, <<>>)
    /\ op' = called("clearCache", <<>>)
    /\ UNCHANGED <<config, apiKeys, currentKeyIndex, usageStats,
                   lastRequestTime, cacheFile, usageFile, usageWrites, loading,
                   ctx, env, now, ticks, call, started, send, sendsStarted,
                   term>>

DisabledInit ==
    /\ InitService
    /\ config \in {k \in Configs : ~k.ENABLE_CACHE}
    /\ apiKeys = 1
    /\ cacheFile \in CacheFiles
    /\ usageFile = [present |-> FALSE, data |-> NoUsage]
    /\ loading = [cache |-> TRUE, usage |-> TRUE]
    /\ env \in {f \in Envs : ~f.readable}

DisabledNext ==
    \/ LoadCache
    \/ \E d \in CacheDeltas : advanceClock(d, MaxElapses)
    \/ \E input \in SetInputs, suggestion \in Suggestions :
          CacheSet(input, suggestion)
    \/ \E input \in GetInputs : CacheGet(input)
    \/ ClearCache
    \/ \E i \in 1..MaxOps : SaveCacheSettles(i)

DisabledSpec == DisabledInit /\ [][DisabledNext]_vars

\* ------------------------------------------- the usage record, directly
\* canMakeRequest, recordRequest and getUsageStats called on the CacheManager
\* over days, and get for the hits it counts, while the writes of usage.json
\* are pending

\* usage.json as the day before left it, at the daily limit
StaleUsageFile ==
    [present |-> TRUE,
     data |-> [NoUsage EXCEPT !.totalRequests = MAX_DAILY_REQUESTS,
                              !.dailyRequests = MAX_DAILY_REQUESTS,
                              !.lastReset = StartTime \div MS_PER_DAY - 1]]

\* canMakeRequest() is called (lines 127-140)
CanMakeRequest ==
    /\ op.calls < MaxOps
    /\ op' = [called("canMakeRequest", <<>>)
                  EXCEPT !.allowed = canMakeRequest(usageStats)]
    /\ UNCHANGED <<config, apiKeys, currentKeyIndex, cache, usageStats,
                   lastRequestTime, cacheFile, usageFile, cacheWrites,
                   usageWrites, loading, ctx, env, now, ticks, call, started,
                   send, sendsStarted, term>>

\* recordRequest(tokenCount) is called (lines 142-154); saveUsageStats starts
\* a write
RecordRequest(tokenCount) ==
    /\ op.calls < MaxOps
    /\ usageStats' = recordRequest(usageStats, tokenCount)
    /\ lastRequestTime' = now
    /\ usageWrites' = Append(usageWrites, usageStats')
    /\ op' = called("recordRequest", <<>>)
    /\ UNCHANGED <<config, apiKeys, currentKeyIndex, cache, cacheFile,
                   usageFile, cacheWrites, loading, ctx, env, now, ticks, call,
                   started, send, sendsStarted, term>>

\* cacheHitRate with the percentage cut after its first decimal, not rounded
cacheHitRate_truncated(stats) ==
    IF stats.totalRequests > 0
    THEN [text |-> TRUE,
          tenths |-> (stats.cachedHits * 1000) \div stats.totalRequests]
    ELSE [text |-> FALSE, tenths |-> 0]

\* the cacheHitRate of getUsageStats (lines 159-165): the number 0 without
\* requests, else ((cachedHits / totalRequests) * 100).toFixed(1), a string,
\* kept as its value in tenths of a percent; toFixed takes the nearest
\* tenth, the larger one on a tie
cacheHitRate(stats) ==
    IF stats.totalRequests > 0
    THEN [text |-> TRUE,
          tenths |-> (stats.cachedHits * 2000 + stats.totalRequests)
                         \div (2 * stats.totalRequests)]
    ELSE [text |-> FALSE, tenths |-> 0]

\* getUsageStats() is called (lines 156-168): a copy of the record, with the
\* hit rate
GetUsageStats ==
    /\ op.calls < MaxOps
    /\ op' = [called("getUsageStats", <<>>)
                  EXCEPT !.daily = usageStats.dailyRequests,
                         !.rate = cacheHitRate(usageStats)]
    /\ UNCHANGED <<config, apiKeys, currentKeyIndex, cache, usageStats,
                   lastRequestTime, cacheFile, usageFile, cacheWrites,
                   usageWrites, loading, ctx, env, now, ticks, call, started,
                   send, sendsStarted, term>>

\* the time between two events: the cooldown, or a day
UsageDeltas == {REQUEST_COOLDOWN, MS_PER_DAY}
TokenCounts == {0, 1000000}

UsageInit ==
    /\ InitService
    /\ config \in {k \in Configs : k.ENABLE_SUGGESTIONS /\ k.ENABLE_CACHE}
    /\ apiKeys = 1
    /\ cacheFile \in {f \in CacheFiles :
                        \A i \in 1..Len(f.entries) :
                            StartTime - f.entries[i].timestamp < REQUEST_COOLDOWN}
    /\ usageFile \in UsageFiles \cup {StaleUsageFile}
    /\ loading = [cache |-> TRUE, usage |-> TRUE]
    /\ env \in {f \in Envs : ~f.readable}

UsageNext ==
    \/ LoadCache
    \/ LoadUsageStats
    \/ CacheGet(S_git)
    \/ \E d \in UsageDeltas : advanceClock(d, MaxElapses)
    \/ CanMakeRequest
    \/ \E tokenCount \in TokenCounts : RecordRequest(tokenCount)
    \/ GetUsageStats

UsageSpec == UsageInit /\ [][UsageNext]_vars

\* ------------------------------------------- a fresh process, end to end
\* the key-rotating service in a directory with a package.json, nothing
\* persisted by an earlier run, one credential

S_npm_inst == <<"n", "p", "m", " ", "i", "n", "s", "t">>
S_npm_install == <<"n", "p", "m", " ", "i", "n", "s", "t", "a", "l", "l">>
ManifestInputs == {S_npm_inst, S_xyz}

\* directories that list a package.json: one where it is read and parsed, and
\* one, outside any repository, where reading it fails
ManifestEnvs == {
    [files |-> <<File(F_package_json), File(F_index_js), Dir(F_src)>>,
     readable |-> TRUE, writable |-> TRUE,
     isGitRepo |-> TRUE, hasChanges |-> TRUE, hasPackageJson |-> TRUE, scripts |-> 2],
    [files |-> <<File(F_package_json)>>, readable |-> TRUE, writable |-> TRUE,
     isGitRepo |-> FALSE, hasChanges |-> FALSE, hasPackageJson |-> FALSE, scripts |-> 0] }

ManifestInit ==
    /\ InitService
    /\ config \in {k \in Configs : k.ENABLE_SUGGESTIONS /\ k.ENABLE_CACHE}
    /\ apiKeys = 1
    /\ cacheFile = [present |-> FALSE, entries |-> <<>>]
    /\ usageFile = [present |-> FALSE, data |-> NoUsage]
    /\ loading = [cache |-> TRUE, usage |-> TRUE]
    /\ env \in ManifestEnvs

ManifestNext ==
    \/ LoadCache
    \/ LoadUsageStats
    \/ \E d \in Deltas : Tick(d)
    \/ \E c \in Calls, userInput \in ManifestInputs :
          GetCommandSuggestion(c, userInput)
    \/ \E c \in Calls : UpdateFileContext(c)
    \/ \E c \in Calls : UpdateGitContext(c)
    \/ \E c \in Calls : UpdateNodeContext(c)
    \/ \E c \in Calls : Return(c)

ManifestSpec == ManifestInit /\ [][ManifestNext]_vars

\* ------------------------------------------ the context, request by request
\* the key-rotating service asked again and again while the working directory
\* changes between the requests and executed commands are recorded; and the
\* ContextManager's own methods called directly

F_Main_java == <<"M", "a", "i", "n", ".", "j", "a", "v", "a">>
F_main_c == <<"m", "a", "i", "n", ".", "c">>
F_index_html == <<"i", "n", "d", "e", "x", ".", "h", "t", "m", "l">>

\* directory listings in which none, one or several of the name tests of
\* getDirectoryType succeed
FileLists == {
    <<File(F_README_md)>>,
    <<File(F_main_py), File(F_Main_java), Dir(F_src)>>,
    <<File(F_Main_java), File(F_main_c)>>,
    <<File(F_main_c), File(F_index_html)>>,
    <<File(F_index_html)>>,
    <<Dir(F_src)>> }

\* every listing, inside and outside a repository, with and without a
\* package.json that parses; one manifest without scripts; and two
\* directories that cannot be listed
ContextEnvs ==
    {[files |-> l, readable |-> TRUE, writable |-> TRUE, isGitRepo |-> g,
      hasChanges |-> g, hasPackageJson |-> n,
      scripts |-> IF n THEN 2 ELSE 0] :
         l \in FileLists, g \in BOOLEAN, n \in BOOLEAN}
    \cup {[files |-> <<File(F_README_md)>>, readable |-> TRUE,
           writable |-> TRUE, isGitRepo |-> TRUE, hasChanges |-> FALSE,
           hasPackageJson |-> TRUE, scripts |-> 0]}
    \cup {[files |-> <<File(F_main_py)>>, readable |-> FALSE,
           writable |-> TRUE, isGitRepo |-> g, hasChanges |-> g,
           hasPackageJson |-> g, scripts |-> IF g THEN 2 ELSE 0] :
              g \in BOOLEAN}

S_ls == <<"l", "s">>
ExecutedCommands == {S_git_status, S_ls}

\* Array.prototype.slice(0, n)
slice0(s, n) == SubSeq(s, 1, IF Len(s) < n THEN Len(s) ELSE n)

maxRecentCommands == 10

\* addRecentCommand pushing the command at the end of the buffer
addRecentCommand_pushing(recentCommands, command) ==
    LET pushed == Append(recentCommands, command)
    IN  IF Len(pushed) > maxRecentCommands
        THEN slice0(pushed, maxRecentCommands)
        ELSE pushed

\* ContextManager.addRecentCommand (context-manager.js lines 113-121)
addRecentCommand(recentCommands, command) ==
    LET unshifted == <<command>> \o recentCommands
    IN  IF Len(unshifted) > maxRecentCommands
        THEN slice0(unshifted, maxRecentCommands)
        ELSE unshifted

\* ContextManager.getContextSummary (lines 123-136)
getContextSummary(c) ==
    [recentCommands |-> slice0(c.recentCommands, 3),
     fileCount |-> Len(c.fileContext),
     directories |->
         Cardinality({i \in 1..Len(c.fileContext) : c.fileContext[i].isDirectory}),
     files |->
         Cardinality({i \in 1..Len(c.fileContext) : ~c.fileContext[i].isDirectory}),
     git |-> c.gitContext,
     node |-> c.nodeContext]

\* one sentence of the prompt: what it is about, the number it states and the
\* commands or the input it quotes
Part(part, n, list) == [part |-> part, n |-> n, list |-> list]

\* ContextManager.buildContextPrompt up to the statement that raises (lines
\* 139-170): the sentences appended to prompt, in the order they are appended
promptBeforeInstruction(c, userInput) ==
    LET context == getContextSummary(c)
    IN  <<Part("directory", 0, <<>>)>>
        \o (IF ~context.git.isNull /\ context.git.isGitRepo
            THEN <<Part("branch", 0, <<>>)>>
                 \o (IF context.git.hasChanges
                     THEN <<Part("changes", 0, <<>>)>> ELSE <<>>)
            ELSE <<>>)
        \o (IF ~context.node.isNull /\ context.node.hasPackageJson
            THEN <<Part("manifest", 0, <<>>)>>
                 \o (IF context.node.scripts > 0
                     THEN <<Part("scripts", context.node.scripts, <<>>)>>
                     ELSE <<>>)
            ELSE <<>>)
        \o (IF Len(context.recentCommands) > 0
            THEN <<Part("recent", 0, context.recentCommands)>> ELSE <<>>)
        \o (IF context.files > 0 \/ context.directories > 0
            THEN <<Part("files", context.files, <<>>),
                   Part("folders", context.directories, <<>>)>>
            ELSE <<>>)
        \o <<Part("input", 0, <<userInput>>)>>

\* getCommandSuggestion(userInput) is called after every earlier call returned
GetCommandSuggestionInDirectory(c, userInput) ==
    /\ \A d \in CallSlots : call[d].pc \in {"idle", "done"}
    /\ callService(c, userInput, MaxRepeats)
    /\ UNCHANGED term

\* between two requests the process is in another directory, or the
\* directory has other content
ChangeDirectory(e) ==
    /\ \A d \in CallSlots : call[d].pc \in {"idle", "done"}
    /\ started < MaxRepeats
    /\ e # env
    /\ env' = e
    /\ UNCHANGED <<config, apiKeys, currentKeyIndex, cache, usageStats,
                   lastRequestTime, cacheFile, usageFile, cacheWrites,
                   usageWrites, loading, ctx, now, ticks, call, started, send,
                   sendsStarted, term, op>>

\* addRecentCommand(command) is called, limit bounding the calls of one
\* behaviour
recordCommand(command, limit) ==
    /\ op.calls < limit
    /\ ctx' = [ctx EXCEPT
                  !.recentCommands = addRecentCommand(@, command)]
    /\ op' = [called("addRecentCommand", command) EXCEPT
                  !.recent = ctx.recentCommands]
    /\ UNCHANGED <<config, apiKeys, currentKeyIndex, cache, usageStats,
                   lastRequestTime, cacheFile, usageFile, cacheWrites,
                   usageWrites, loading, env, now, ticks, call, started, send,
                   sendsStarted, term>>

\* the terminal records a command it has executed (part_000 lines 111-113)
RecordExecutedCommand(command) == recordCommand(command, MaxOps)

\* getContextSummary() is called
GetContextSummary ==
    /\ op.name # "getContextSummary"
    /\ op' = [op EXCEPT !.name = "getContextSummary",
                        !.recent = getContextSummary(ctx).recentCommands,
                        !.threw = FALSE, !.parts = <<>>]
    /\ UNCHANGED <<config, apiKeys, currentKeyIndex, cache, usageStats,
                   lastRequestTime, cacheFile, usageFile, cacheWrites,
                   usageWrites, loading, ctx, env, now, ticks, call, started,
                   send, sendsStarted, term>>

\* buildContextPrompt(userInput) is called (lines 138-174)
BuildContextPrompt(userInput) ==
    /\ op.name # "buildContextPrompt"
    /\ op' = [op EXCEPT !.name = "buildContextPrompt", !.input = userInput,
                        !.threw = buildContextPrompt(ctx, userInput).threw,
                        !.parts = promptBeforeInstruction(ctx, userInput),
                        !.recent = <<>>]
    /\ UNCHANGED <<config, apiKeys, currentKeyIndex, cache, usageStats,
                   lastRequestTime, cacheFile, usageFile, cacheWrites,
                   usageWrites, loading, ctx, env, now, ticks, call, started,
                   send, sendsStarted, term>>

ContextInputs == {S_git, S_npm_inst}

\* nothing persisted by an earlier run, and both loads have found that out
ContextInit ==
    /\ InitService
    /\ config \in {k \in Configs : k.ENABLE_SUGGESTIONS /\ k.ENABLE_CACHE}
    /\ apiKeys = 1
    /\ cacheFile = [present |-> FALSE, entries |-> <<>>]
    /\ usageFile = [present |-> FALSE, data |-> NoUsage]
    /\ loading = [cache |-> FALSE, usage |-> FALSE]
    /\ env \in ContextEnvs

ContextNext ==
    \/ \E c \in Calls, userInput \in ContextInputs :
          GetCommandSuggestionInDirectory(c, userInput)
    \/ \E c \in Calls : UpdateFileContext(c)
    \/ \E c \in Calls : UpdateGitContext(c)
    \/ \E c \in Calls : UpdateNodeContext(c)
    \/ \E c \in Calls : Return(c)
    \/ \E e \in ContextEnvs : ChangeDirectory(e)

ContextSpec == ContextInit /\ [][ContextNext]_vars

\* ------------------------------------------------------ the prompt, directly
\* buildContextPrompt called on the ContextManager of a service that has
\* taken one request, with commands recorded before and after it

PromptNext ==
    \/ \E c \in Calls, userInput \in ContextInputs :
          GetCommandSuggestion(c, userInput)
    \/ \E c \in Calls : UpdateFileContext(c)
    \/ \E c \in Calls : UpdateGitContext(c)
    \/ \E c \in Calls : UpdateNodeContext(c)
    \/ \E c \in Calls : Return(c)
    \/ \E command \in ExecutedCommands : RecordExecutedCommand(command)
    \/ BuildContextPrompt(S_xyz)

PromptSpec == ContextInit /\ [][PromptNext]_vars

\* ------------------------------------------------- the recent-command buffer
\* the ContextManager's buffer filled past its capacity

\* addRecentCommand(command) is called
AddRecentCommand(command) == recordCommand(command, MaxRecorded)

RecentInit ==
    /\ InitService
    /\ config \in {k \in Configs : k.ENABLE_SUGGESTIONS /\ k.ENABLE_CACHE}
    /\ apiKeys = 1
    /\ cacheFile = [present |-> FALSE, entries |-> <<>>]
    /\ usageFile = [present |-> FALSE, data |-> NoUsage]
    /\ loading = [cache |-> FALSE, usage |-> FALSE]
    /\ env \in {f \in Envs : ~f.readable}

RecentNext ==
    \/ \E command \in ExecutedCommands : AddRecentCommand(command)
    \/ GetContextSummary
    \/ BuildContextPrompt(S_xyz)

RecentSpec == RecentInit /\ [][RecentNext]_vars


\* ------------------------------------------ the CacheManager and its files
\* the CacheManager called from its construction on, while the two loads and
\* the writes it has started are pending

PersistInputs == {S_Git_lead, S_xyz}

PersistInit ==
    /\ InitService
    /\ config \in {k \in Configs : k.ENABLE_SUGGESTIONS /\ k.ENABLE_CACHE}
    /\ apiKeys = 1
    /\ cacheFile \in CacheFiles
    /\ usageFile \in UsageFiles \cup {StaleUsageFile}
    /\ loading = [cache |-> TRUE, usage |-> TRUE]
    /\ env \in {f \in Envs : ~f.readable}

PersistNext ==
    \/ LoadCache
    \/ LoadUsageStats
    \/ \E input \in PersistInputs, suggestion \in Suggestions :
          CacheSet(input, suggestion)
    \/ CacheGet(S_git)
    \/ ClearCache
    \/ \E tokenCount \in TokenCounts : RecordRequest(tokenCount)
    \/ \E i \in 1..MaxOps : SaveCacheSettles(i)
    \/ \E i \in 1..MaxOps : SaveUsageStatsSettles(i)

PersistSpec == PersistInit /\ [][PersistNext]_vars

\* ------------------------------------------------------------------- claims
\* call c enters getCommandSuggestion in this step
Started(c) == call[c].pc = "idle" /\ call'[c].pc # "idle"

\* the counters recordRequest maintains
Counters(stats) == <<stats.totalRequests, stats.dailyRequests, stats.costEstimate>>

\* C1: a call whose trimmed input is shorter than MIN_INPUT_LENGTH, or any call
\* while suggestions are disabled, returns null at once: get() is not called, no
\* hit is counted, the governor is not asked, nothing is dispatched, and the
\* cache, the usage record, the last-request time, the credential cursor and the
\* context are left as they were.
C1_ShortOrDisabledHasNoEffect ==
    [][\A c \in Calls :
          (/\ Started(c)
           /\ \/ ~config.ENABLE_SUGGESTIONS
              \/ Len(trim(call'[c].input)) < MIN_INPUT_LENGTH)
          => /\ call'[c].pc = "done"
             /\ call'[c].result = NULL
             /\ ~call'[c].looked
             /\ ~call'[c].hit
             /\ ~call'[c].governor
             /\ call'[c].dispatches = 0
             /\ UNCHANGED <<cache, usageStats, lastRequestTime, currentKeyIndex,
                            ctx>>]_vars

\* a padded input of four characters, two after trimming, was turned down
\* while the cache held entries
C1_Witness ==
    \E c \in Calls :
        /\ call[c].pc = "done"
        /\ call[c].input = S_gi_padded
        /\ call[c].result = NULL
        /\ config.ENABLE_SUGGESTIONS
        /\ cache # <<>>

\* C2: every call in which get() counts a hit returns the cached suggestion at
\* once, without asking the governor.
C2_CountedHitIsServed ==
    [][\A c \in Calls :
          (Started(c) /\ call'[c].hit)
          => /\ call'[c].pc = "done"
             /\ call'[c].result = get(call'[c].input).value
             /\ ~call'[c].governor]_vars

\* C3: when get() misses and canMakeRequest() is false, the call returns null
\* at once: no probe is started, nothing is dispatched, and the cache, the whole
\* usage record, the last-request time, the cursor and the context are left as
\* they were.
C3_DeniedHasNoEffect ==
    [][\A c \in Calls :
          (/\ Started(c)
           /\ config.ENABLE_SUGGESTIONS
           /\ Len(trim(call'[c].input)) >= MIN_INPUT_LENGTH
           /\ ~get(call'[c].input).hit
           /\ ~canMakeRequest(usageStats))
          => /\ call'[c].pc = "done"
             /\ call'[c].result = NULL
             /\ call'[c].dispatches = 0
             /\ UNCHANGED <<cache, usageStats, lastRequestTime, currentKeyIndex,
                            ctx>>]_vars

\* a call was turned down by the governor after a cache miss
C3_Witness ==
    \E c \in Calls :
        /\ call[c].pc = "done"
        /\ call[c].route = "denied"
        /\ call[c].looked /\ ~call[c].hit
        /\ usageStats.dailyRequests >= MAX_DAILY_REQUESTS

\* C4: no step of a call that takes the direct-match path touches the cache,
\* totalRequests, dailyRequests, costEstimate, the last-request time or the
\* cursor, and none dispatches; the call returns the first relevant command that
\* starts with the lower-cased input; and its return leaves the same input
\* routed past cache and governor to the context, as it was before.
C4_DirectMatchIsNotCachedNorCounted ==
    [][\A c \in Calls :
          (call'[c] # call[c] /\ call'[c].route \in {"context", "direct"})
          => /\ UNCHANGED <<cache, lastRequestTime, currentKeyIndex>>
             /\ Counters(usageStats') = Counters(usageStats)
             /\ call'[c].dispatches = 0
             /\ call'[c].route = "direct" =>
                   LET cmds == getRelevantCommands(ctx')
                       low == toLowerCase(call[c].input)
                   IN  /\ call'[c].pc = "done"
                       /\ ~call'[c].result.isNull
                       /\ \E i \in 1..Len(cmds) :
                             /\ call'[c].result.str = cmds[i]
                             /\ startsWith(toLowerCase(cmds[i]), low)
                             /\ \A j \in 1..(i - 1) :
                                   ~startsWith(toLowerCase(cmds[j]), low)
                       /\ entry(call[c].input).route = "context"
                             => entry(call[c].input)'.route = "context"]_vars

\* "git" was answered "git status" by a direct match while the cache held a
\* stale entry for it, and is still routed to the context afterwards
C4_Witness ==
    \E c \in Calls :
        /\ call[c].pc = "done"
        /\ call[c].route = "direct"
        /\ call[c].input = S_git
        /\ call[c].result = Str(S_git_status)
        /\ CacheIndex(cache, S_git) # 0
        /\ entry(S_git).route = "context"

\* C5: a call that is enabled, long enough, misses the cache, passes the
\* governor and finds no direct match has invoked postWithKeyRotation exactly
\* once by the time it ends.
C5_NoMatchDispatchesOnce ==
    \A c \in Calls :
        (/\ call[c].pc = "done"
         /\ call[c].governor
         /\ call[c].route \notin {"denied", "direct"})
        => call[c].dispatches = 1

\* the HTTP response of call c arrives in this step
Answered(c) == call[c].pc = "http" /\ call'[c].response.kind # "none"

\* C6 as stated: after a response with a valid candidate, the returned
\* suggestion is at most MAX_SUGGESTION_LENGTH long, the cache holds exactly that
\* suggestion under the normalized input key, totalRequests and dailyRequests
\* have each grown by exactly 1, and the last-request time is now.
C6_SuccessIsCachedAndCounted ==
    [][\A c \in Calls :
          (/\ Answered(c)
           /\ call'[c].response.kind = "text"
           /\ trim(call'[c].response.text) # <<>>)
          => /\ call'[c].pc = "done"
             /\ ~call'[c].result.isNull
             /\ Len(call'[c].result.str) <= MAX_SUGGESTION_LENGTH
             /\ LET i == CacheIndex(cache', getCacheKey(call[c].input))
                IN  /\ i # 0
                    /\ cache'[i].suggestion = call'[c].result.str
             /\ usageStats'.totalRequests = usageStats.totalRequests + 1
             /\ usageStats'.dailyRequests = usageStats.dailyRequests + 1
             /\ lastRequestTime' = now]_vars

\* C6, amended: after a response with a valid candidate, the returned suggestion
\* is the trimmed text cut to MAX_SUGGESTION_LENGTH; when caching is enabled the
\* cache holds exactly that suggestion, stamped now, under the normalized input
\* key, and when it is disabled the cache is left as it was; totalRequests and
\* dailyRequests have each grown by exactly 1, costEstimate by the cost of the
\* reported tokens, and the last-request time is now.
C6_SuccessIsCachedWhenEnabledAndCounted ==
    [][\A c \in Calls :
          (/\ Answered(c)
           /\ call'[c].response.kind = "text"
           /\ trim(call'[c].response.text) # <<>>)
          => /\ call'[c].pc = "done"
             /\ ~call'[c].result.isNull
             /\ Len(call'[c].result.str) <= MAX_SUGGESTION_LENGTH
             /\ startsWith(trim(call'[c].response.text), call'[c].result.str)
             /\ \/ Len(call'[c].result.str) = MAX_SUGGESTION_LENGTH
                \/ call'[c].result.str = trim(call'[c].response.text)
             /\ IF config.ENABLE_CACHE
                THEN LET i == CacheIndex(cache', getCacheKey(call[c].input))
                     IN  /\ i # 0
                         /\ cache'[i].suggestion = call'[c].result.str
                         /\ cache'[i].timestamp = now
                ELSE cache' = cache
             /\ usageStats'.totalRequests = usageStats.totalRequests + 1
             /\ usageStats'.dailyRequests = usageStats.dailyRequests + 1
             /\ usageStats'.costEstimate =
                    usageStats.costEstimate
                    + requestCost(call'[c].response.tokens)
             /\ lastRequestTime' = now]_vars

\* a text of 36 characters was returned cut to MAX_SUGGESTION_LENGTH, cached
\* under the key of a padded, capitalised input, and counted
C6_Witness ==
    \E c \in Calls :
        /\ call[c].pc = "done"
        /\ call[c].route = "success"
        /\ call[c].input = S_Git_lead
        /\ call[c].response.text = T_long
        /\ Len(call[c].result.str) = MAX_SUGGESTION_LENGTH
        /\ config.ENABLE_CACHE
        /\ CacheIndex(cache, S_git) # 0
        /\ cache[CacheIndex(cache, S_git)].suggestion = call[c].result.str
        /\ usageStats.totalRequests = 1
        /\ lastRequestTime = now

\* C7: a successful HTTP response that has no candidate, or whose first
\* candidate has empty text or lacks a field, is no suggestion: the call ends
\* returning nothing, the cache, the usage record and the last-request time are
\* left as they were, no write is started, and no further request is made.
C7_NoCandidateIsNoSuggestion ==
    [][\A c \in Calls :
          (/\ Answered(c)
           /\ \/ call'[c].response.kind \in {"noCandidates", "malformed"}
              \/ call'[c].response.text = <<>>)
          => /\ call'[c].pc = "done"
             /\ ~Truthy(call'[c].result)
             /\ call'[c].dispatches = call[c].dispatches
             /\ UNCHANGED <<cache, usageStats, lastRequestTime, currentKeyIndex,
                            cacheWrites, usageWrites>>]_vars

\* C8: when a step after the governor check throws, the call resolves to null
\* instead of raising, and no step of such a call touches the cache, the usage
\* counters or the last-request time.
C8_FailureIsSwallowed ==
    [][\A c \in Calls :
          /\ (call[c].pc = "node" /\ call'[c].pc # "node"
              /\ getContextualSuggestion(ctx', call[c].input).kind = "threw")
             => (call'[c].pc = "done" /\ call'[c].result = NULL)
          /\ (call'[c] # call[c] /\ call'[c].route \in {"context", "promptError"})
             => /\ UNCHANGED <<cache, lastRequestTime>>
                /\ Counters(usageStats') = Counters(usageStats)]_vars

\* a call ended with null after buildContextPrompt threw
C8_Witness ==
    \E c \in Calls :
        /\ call[c].pc = "done"
        /\ call[c].route = "promptError"
        /\ call[c].result = NULL
        /\ call[c].governor

\* C9: a send that no other send overlaps and that succeeds on its n-th request
\* returns that response with the cursor (n - 1) places, circularly, from where
\* the send found it: K - 1 places when only the last of K credentials works,
\* none when the first request succeeds.
C9_CursorAdvancesOncePerFailure ==
    [][\A s \in Sends :
          (send[s].pc = "await" /\ send'[s].pc = "returned" /\ send[s].alone)
          => /\ send'[s].response \in ResponseKinds
             /\ send[s].requests \in 1..apiKeys
             /\ currentKeyIndex' =
                   (send[s].startIndex + send[s].requests - 1) % apiKeys
             /\ send[s].requests = 1 => currentKeyIndex' = send[s].startIndex]_vars

\* in the largest pool a send that started away from the first credential
\* succeeded on its last credential, wrapping round
C9_Witness ==
    \E s \in Sends :
        /\ send[s].pc = "returned"
        /\ send[s].alone
        /\ apiKeys = MaxKeys
        /\ send[s].requests = apiKeys
        /\ send[s].startIndex # 0
        /\ currentKeyIndex < send[s].startIndex

\* C10: a send never makes more requests than there are credentials, and one
\* that ends in the exhaustion error has made exactly that many.
C10_ExhaustionAfterExactlyKRequests ==
    \A s \in Sends :
        /\ send[s].requests <= apiKeys
        /\ send[s].pc = "threw" =>
              (send[s].requests = apiKeys /\ send[s].attempt = apiKeys)

\* a send over the largest pool ended in the exhaustion error
C10_Witness ==
    \E s \in Sends :
        /\ send[s].pc = "threw"
        /\ apiKeys = MaxKeys
        /\ send[s].requests = MaxKeys
        /\ send[s].attempt = MaxKeys

\* C11: no send posts with the same credential twice, and a send that ends in
\* the exhaustion error has posted with every credential of the pool; also
\* when another send is awaiting its response on the same cursor.
C11_OneAttemptPerCredential ==
    \A s \in Sends :
        /\ ~send[s].reused
        /\ send[s].pc = "threw" => send[s].usedKeys = 0..(apiKeys - 1)

\* C12: in every state the pool is non-empty and the cursor is an index of
\* it; a failed request moves the cursor to (index + 1) mod length, and no
\* other step of a send moves it.
C12_CursorStaysInPool ==
    /\ [](apiKeys >= 1 /\ currentKeyIndex \in 0..(apiKeys - 1))
    /\ [][IF \E s \in Sends : send[s].pc = "await"
                                /\ send'[s].attempt = send[s].attempt + 1
           THEN currentKeyIndex' = (currentKeyIndex + 1) % apiKeys
           ELSE currentKeyIndex' = currentKeyIndex]_vars

\* in the largest pool a second send found the cursor on the last credential,
\* failed on every credential and left the cursor where it found it
C12_Witness ==
    \E s \in Sends :
        /\ send[s].pc = "threw"
        /\ apiKeys = MaxKeys
        /\ sendsStarted = 2
        /\ send[s].startIndex = MaxKeys - 1
        /\ currentKeyIndex = MaxKeys - 1

\* a call the terminal is awaiting that has not yet settled
InFlight(c) == call[c].pc \notin {"idle", "done"}

\* C13: with the debounce timer driving the pipeline, at most one
\* getCommandSuggestion call is in flight at any time.
C13_OneCallInFlight ==
    Cardinality({c \in TermCalls : InFlight(c)}) <= 1

\* C14: the result of a request made for an input that is no longer on the line
\* is ignored, and whatever is displayed after the line is the result of a
\* request made for the input now on the line.
C14_DisplayedIsForCurrentInput ==
    /\ [](displayed(term) # <<>> => term.shownFor = term.currentInput)
    /\ [][\A c \in TermCalls :
             (call[c].pc = "done" /\ call'[c].pc = "idle"
              /\ call[c].input # term.currentInput)
             => term'.suggestion = term.suggestion]_vars

\* C15: of two calls with the same input, the second made within the cache TTL
\* of the first and every request of either failing, both return the same
\* result and together they have made at most one request.
C15_FailingRequestIsNotRepeated ==
    \A c, d \in CallSlots :
        (/\ c < d
         /\ call[c].pc = "done" /\ call[d].pc = "done"
         /\ call[c].input = call[d].input
         /\ call[c].response.kind = "none" /\ call[d].response.kind = "none"
         /\ ticks = 0)
        => /\ call[c].result = call[d].result
           /\ call[c].dispatches + call[d].dispatches <= 1

\* this step is a direct call of the CacheManager method name
Calling(name) == op'.calls = op.calls + 1 /\ op'.name = name

C17_EntryExpiresAtTtl ==
    [][\A input \in GetInputs :
          (Calling("get") /\ op'.input = input /\ config.ENABLE_CACHE)
          => LET held == {k \in 1..Len(cache) :
                               cache[k].key = toLowerCase(trim(input))}
                 young == {k \in held :
                               now - cache[k].timestamp < CACHE_DURATION}
             IN  /\ young # {} => \E k \in young :
                                      op'.value = Str(cache[k].suggestion)
                 /\ young = {} => op'.value = NULL]_vars

\* an entry set in this process is read one millisecond before its TTL is
\* up, and hit, and read again when the TTL is up, and missed
C17_Witness ==
    /\ op.name = "get" /\ op.before = "get" /\ op.beforeInput = op.input
    /\ op.value = NULL
    /\ usageStats.cachedHits = 1
    /\ op.calls = 3 /\ ticks = 2
    /\ \E k \in 1..Len(cache) :
           /\ cache[k].key = getCacheKey(op.input)
           /\ cache[k].timestamp = StartTime
           /\ op.at - cache[k].timestamp = CACHE_DURATION

\* C18: a set on a map that holds MAX_CACHE_SIZE entries removes exactly the
\* first-inserted one, every other entry stays and the new one is held, and
\* after any set the map holds at most MAX_CACHE_SIZE entries.
C18_SetKeepsCapacity ==
    [][(Calling("set") /\ config.ENABLE_CACHE)
       => LET Keys(c) == {c[k].key : k \in 1..Len(c)}
              new == getCacheKey(op'.input)
          IN  /\ Len(cache') <= MAX_CACHE_SIZE
              /\ new \in Keys(cache')
              /\ IF Len(cache) >= MAX_CACHE_SIZE
                 THEN Keys(cache') = (Keys(cache) \ {cache[1].key}) \cup {new}
                 ELSE Keys(cache') = Keys(cache) \cup {new}]_vars

\* C19: when the stored last-reset day is not today, the next canMakeRequest,
\* recordRequest or getUsageStats, or the load of usage.json, sets
\* dailyRequests to 0 and lastReset to today before it does anything else: the
\* quota is then evaluated on 0, recordRequest leaves 1, getUsageStats
\* returns 0.
C19_DailyCountResetsOnNewDay ==
    [][/\ (/\ op'.calls = op.calls + 1
           /\ op'.name \in {"canMakeRequest", "recordRequest", "getUsageStats"}
           /\ usageStats.lastReset # Today)
          => /\ usageStats'.lastReset = Today
             /\ usageStats'.dailyRequests =
                    IF op'.name = "recordRequest" THEN 1 ELSE 0
             /\ op'.name = "getUsageStats" => op'.daily = 0
             /\ op'.name = "canMakeRequest"
                    => op'.allowed = (now - lastRequestTime >= REQUEST_COOLDOWN)
       /\ (/\ loading.usage /\ ~loading'.usage
           /\ usageFile.present /\ usageFile.data.lastReset # Today)
          => /\ usageStats'.lastReset = Today
             /\ usageStats'.dailyRequests = 0]_vars

\* C20: in a fresh process (nothing persisted, one credential) started in a
\* directory that lists a package.json, a finished getCommandSuggestion
\* ("npm inst") has called the dispatcher exactly once, the cache holds
\* "npm install" under the key "npm inst", totalRequests is 1 and cachedHits
\* is 0.
C20_NpmInstEndToEnd ==
    \A c \in Calls :
        (call[c].pc = "done" /\ call[c].input = S_npm_inst)
        => /\ call[c].dispatches = 1
           /\ \E k \in 1..Len(cache) :
                  /\ cache[k].key = S_npm_inst
                  /\ cache[k].suggestion = S_npm_install
           /\ usageStats.totalRequests = 1
           /\ usageStats.cachedHits = 0

\* C21, as stated: in a repository without a package.json, a finished call for
\* "gi" has returned "git status" and has not dispatched.
C21_GiReturnsVcsCommand ==
    \A c \in Calls :
        (/\ call[c].pc = "done" /\ call[c].input = S_gi
         /\ config.ENABLE_SUGGESTIONS
         /\ env.isGitRepo /\ ~env.hasPackageJson)
        => /\ call[c].result = Str(S_git_status)
           /\ call[c].dispatches = 0

\* C21, amended: the short-circuit is for an input of MIN_INPUT_LENGTH or more
\* that missed the cache and passed the governor. When the context is
\* classified git and the lower-cased input, as passed, is a prefix of
\* "git status", the finished call has returned "git status" and has not
\* dispatched.
C21_GitReturnsVcsCommand ==
    \A c \in Calls :
        (/\ call[c].pc = "done"
         /\ Len(trim(call[c].input)) >= MIN_INPUT_LENGTH
         /\ call[c].governor /\ call[c].route # "denied"
         /\ getDirectoryType(ctx) = "git"
         /\ startsWith(S_git_status, toLowerCase(call[c].input)))
        => /\ call[c].result = Str(S_git_status)
           /\ call[c].dispatches = 0

\* "git" typed in a repository without a package.json was answered
\* "git status"
C21_Witness ==
    \E c \in Calls :
        /\ call[c].pc = "done" /\ call[c].input = S_git
        /\ env.isGitRepo /\ ~env.hasPackageJson
        /\ getDirectoryType(ctx) = "git"
        /\ call[c].result = Str(S_git_status)
        /\ call[c].dispatches = 0
        /\ ~call[c].hit

\* C22: recordRequest(n) adds n * (0.000075 + 0.0003) / 1000000 dollars to
\* costEstimate, 0.000375 dollars for a million tokens (amounts in 10^-12
\* dollars), and no step makes costEstimate smaller (resetUsageStats, the
\* one exception allowed, is not among the steps taken).
C22_CostAccounting ==
    [][/\ Calling("recordRequest")
          => \E n \in TokenCounts :
                 /\ usageStats'.costEstimate - usageStats.costEstimate = n * 375
                 /\ n = 1000000 =>
                        usageStats'.costEstimate - usageStats.costEstimate
                            = 75000000 + 300000000
       /\ usageStats'.costEstimate >= usageStats.costEstimate]_vars

\* C23, as stated: the cacheHitRate getUsageStats returns has the value
\* cachedHits / totalRequests, and 0 when totalRequests is 0.
C23_HitRateIsRatio ==
    [][Calling("getUsageStats")
       => IF usageStats.totalRequests = 0 THEN op'.rate.tenths = 0
          ELSE op'.rate.tenths * usageStats.totalRequests
                   = 10 * usageStats.cachedHits]_vars

\* C23, amended: the cacheHitRate getUsageStats returns is the number 0 when
\* totalRequests is 0, and else a string: the percentage
\* 100 * cachedHits / totalRequests at its nearest tenth.
C23_HitRateIsPercentageToOneDecimal ==
    [][Calling("getUsageStats")
       => IF usageStats.totalRequests = 0
          THEN op'.rate = [text |-> FALSE, tenths |-> 0]
          ELSE LET off == 2 * (op'.rate.tenths * usageStats.totalRequests
                                   - 1000 * usageStats.cachedHits)
               IN  /\ op'.rate.text
                   /\ - usageStats.totalRequests < off
                   /\ off <= usageStats.totalRequests]_vars

\* one hit over 101 requests is reported as "1.0"
C23_Witness ==
    /\ op.name = "getUsageStats"
    /\ usageStats.totalRequests = MAX_DAILY_REQUESTS + 1
    /\ usageStats.cachedHits = 1
    /\ op.rate = [text |-> TRUE, tenths |-> 10]

\* C24: with ENABLE_CACHE false, every get returns null and leaves cachedHits
\* as it was, every set leaves the map as it was, and no step starts a write
\* of suggestion-cache.json or changes the file.
C24_DisabledCacheIsInert ==
    [][~config.ENABLE_CACHE
       => /\ Calling("get") => /\ op'.value = NULL
                               /\ usageStats'.cachedHits = usageStats.cachedHits
          /\ Calling("set") => cache' = cache
          /\ cacheWrites' = cacheWrites
          /\ cacheFile' = cacheFile]_vars

\* C25: any two HTTP requests are at least REQUEST_COOLDOWN apart. Every
\* request made so far was made between StartTime and now, so as long as less
\* than REQUEST_COOLDOWN has passed since StartTime no dispatch has posted
\* twice.
C25_RequestsAreCooldownApart ==
    now - StartTime < REQUEST_COOLDOWN
    => \A s \in Sends : send[s].requests <= 1

\* C26: in every reachable state dailyRequests is at most MAX_DAILY_REQUESTS.
C26_DailyLimitHolds == usageStats.dailyRequests <= MAX_DAILY_REQUESTS

\* C27: canMakeRequest() returns false exactly when dailyRequests has reached
\* MAX_DAILY_REQUESTS or less than REQUEST_COOLDOWN has elapsed since the last
\* recorded request, and it changes nothing: not the usage record, not the
\* last-request time, not the cache, and it starts no write.
C27_CanMakeRequestIsAPureCheck ==
    [][Calling("canMakeRequest")
       => /\ op'.allowed = ~(\/ usageStats.dailyRequests >= MAX_DAILY_REQUESTS
                             \/ now - lastRequestTime < REQUEST_COOLDOWN)
          /\ UNCHANGED <<usageStats, lastRequestTime, cache, cacheWrites,
                         usageWrites, cacheFile, usageFile>>]_vars

\* asked exactly REQUEST_COOLDOWN after a recorded request, below the daily
\* limit, it allows
C27_Witness ==
    /\ op.name = "canMakeRequest" /\ op.before = "recordRequest"
    /\ op.allowed
    /\ now - lastRequestTime = REQUEST_COOLDOWN
    /\ usageStats.dailyRequests > 0

\* C28: when loadCache completes, the entries of the file whose age is
\* CACHE_DURATION or more are not in the map and the younger ones are; an
\* entry that grows stale in the map is not removed by the passing of time or
\* by a get: a get on it returns null and leaves the map and cachedHits as
\* they were. The map changes only by a set, a clearCache or the load.
C28_StaleDroppedAtLoadKeptAfter ==
    [][/\ (loading.cache /\ ~loading'.cache /\ cacheFile.present)
          => \A i \in 1..Len(cacheFile.entries) :
                 LET e == cacheFile.entries[i]
                 IN  (now - e.timestamp < CACHE_DURATION)
                         <=> \E k \in 1..Len(cache') : cache'[k] = e
       /\ Calling("get")
          => /\ cache' = cache
             /\ \A k \in 1..Len(cache) :
                    (/\ cache[k].key = toLowerCase(trim(op'.input))
                     /\ now - cache[k].timestamp >= CACHE_DURATION)
                    => /\ op'.value = NULL
                       /\ usageStats'.cachedHits = usageStats.cachedHits
       /\ (~Calling("set") /\ ~Calling("clearCache")
               /\ ~(loading.cache /\ ~loading'.cache))
          => cache' = cache]_vars

\* of the file's two entries the expired one was dropped by the load; the
\* other went stale in the map afterwards, a get on it missed, and it is
\* still held
C28_Witness ==
    /\ ~loading.cache /\ cacheFile.present
    /\ \E i \in 1..Len(cacheFile.entries) : cacheFile.entries[i].key = S_xyz
    /\ CacheIndex(cache, S_xyz) = 0
    /\ op.name = "get" /\ op.input = S_git /\ op.value = NULL
    /\ config.ENABLE_CACHE
    /\ \E k \in 1..Len(cache) :
           /\ cache[k].key = S_git
           /\ cache[k].timestamp < StartTime
           /\ op.at - cache[k].timestamp >= CACHE_DURATION

\* C29: every call that changes the map starts a write of the whole map, and
\* every call that changes the usage record (a recorded request, a counted
\* cache hit) starts a write of the whole record.
C29_EveryMutationIsFlushed ==
    [][op'.calls = op.calls + 1
       => /\ cache' # cache => cacheWrites' = Append(cacheWrites, cache')
          /\ usageStats' # usageStats
                 => usageWrites' = Append(usageWrites, usageStats')]_vars

\* C30: when a write of suggestion-cache.json or usage.json fails, the step
\* in which it fails changes neither the map, nor the usage record, nor the
\* last-request time, nor any call (no call ends differently, none is
\* failed): the mutation that started the write stays; the file is left as
\* it was.
C30_FailedPersistIsSwallowed ==
    [][(/\ ~env.writable
        /\ \/ Len(cacheWrites') < Len(cacheWrites)
           \/ Len(usageWrites') < Len(usageWrites))
       => UNCHANGED <<cache, usageStats, lastRequestTime, call, cacheFile,
                      usageFile>>]_vars

\* on a disk that refuses writes, a call succeeded, both its writes have
\* failed, and the map and the usage record still hold what the call put
\* there
C30_Witness ==
    /\ ~env.writable
    /\ cacheWrites = <<>> /\ usageWrites = <<>>
    /\ ~cacheFile.present /\ ~usageFile.present
    /\ usageStats.totalRequests = 1
    /\ \E c \in Calls :
           /\ call[c].pc = "done" /\ call[c].route = "success"
           /\ \E k \in 1..Len(cache) :
                  /\ cache[k].key = getCacheKey(call[c].input)
                  /\ Str(cache[k].suggestion) = call[c].result
                  /\ get(call[c].input).value = call[c].result

\* the rules of the classification that the snapshot c matches, by rank:
\* 1 manifest, 2 repository, 3 to 6 a listed name containing the extension of
\* python, java, cpp (.cpp or .c) or web (.html or .js), 7 always
MatchingRules(c) ==
    LET named(sub) == \E i \in 1..Len(c.fileContext) :
                          includes(c.fileContext[i].name, sub)
    IN  {r \in 1..7 :
            \/ r = 1 /\ ~c.nodeContext.isNull /\ c.nodeContext.hasPackageJson
            \/ r = 2 /\ ~c.gitContext.isNull /\ c.gitContext.isGitRepo
            \/ r = 3 /\ named(<<".", "p", "y">>)
            \/ r = 4 /\ named(<<".", "j", "a", "v", "a">>)
            \/ r = 5 /\ (named(<<".", "c", "p", "p">>) \/ named(<<".", "c">>))
            \/ r = 6 /\ (\/ named(<<".", "h", "t", "m", "l">>)
                         \/ named(<<".", "j", "s">>))
            \/ r = 7}

\* the category each rule gives
RuleCategory ==
    <<"nodejs", "git", "python", "java", "cpp", "web", "general">>

PartRank ==
    [directory |-> 1, branch |-> 2, changes |-> 3, manifest |-> 4,
     scripts |-> 5, recent |-> 6, files |-> 7, folders |-> 8, input |-> 9]

\* the sentences are in that order, and every signal of snapshot c is among
\* them: branch and dirty flag of a repository, the manifest and the number of
\* its scripts, the recorded commands, the counts of a listing that is not
\* empty, and the input
InOrderAndComplete(parts, c, userInput) ==
    LET has(part) == \E i \in 1..Len(parts) : parts[i].part = part
    IN  /\ \A i, j \in 1..Len(parts) :
              i < j => PartRank[parts[i].part] < PartRank[parts[j].part]
        /\ has("directory")
        /\ (~c.gitContext.isNull /\ c.gitContext.isGitRepo) => has("branch")
        /\ (~c.gitContext.isNull /\ c.gitContext.isGitRepo
            /\ c.gitContext.hasChanges) => has("changes")
        /\ (~c.nodeContext.isNull /\ c.nodeContext.hasPackageJson)
           => /\ has("manifest")
              /\ c.nodeContext.scripts > 0
                 => Part("scripts", c.nodeContext.scripts, <<>>)
                        \in {parts[i] : i \in 1..Len(parts)}
        /\ Len(c.recentCommands) > 0 => has("recent")
        /\ Len(c.fileContext) > 0 => has("files") /\ has("folders")
        /\ parts[Len(parts)] = Part("input", 0, <<userInput>>)

\* C32: a call of buildContextPrompt returns a prompt: the sentences in the
\* order directory, repository, manifest, recent commands, counts, user input,
\* every available signal among them, then the instruction.
C32_PromptHasEverySignalInOrder ==
    [][(op'.name = "buildContextPrompt" /\ op.name # "buildContextPrompt")
       => /\ ~op'.threw
          /\ InOrderAndComplete(op'.parts, ctx, op'.input)]_vars

\* what the three probes of updateContext find in directory e
Listing(e) ==
    IF e.readable
    THEN SubSeq(e.files, 1, IF Len(e.files) < maxFileContext
                            THEN Len(e.files) ELSE maxFileContext)
    ELSE <<>>

C34_RecentCommandsBounded ==
    [][LET before == ctx.recentCommands
           after == ctx'.recentCommands
           three == SubSeq(before, 1, IF Len(before) < 3 THEN Len(before) ELSE 3)
       IN  /\ Len(after) <= 10
           /\ Calling("addRecentCommand")
              => /\ after[1] = op'.input
                 /\ Len(after) = IF Len(before) < 10 THEN Len(before) + 1 ELSE 10
                 /\ \A i \in 2..Len(after) : after[i] = before[i - 1]
           /\ ~Calling("addRecentCommand") => after = before
           /\ (op'.name = "getContextSummary" /\ op.name # "getContextSummary")
              => op'.recent = three
           /\ (op'.name = "buildContextPrompt" /\ op.name # "buildContextPrompt")
              => \A i \in 1..Len(op'.parts) :
                    op'.parts[i].part = "recent" => op'.parts[i].list = three]_vars

\* an eleventh command, "ls", was recorded into a full buffer whose oldest
\* command was "git status": "ls" is first, ten commands are held, and the
\* summary taken next reports three of them
C34_Witness ==
    /\ op.name = "getContextSummary"
    /\ op.calls > 10
    /\ Len(ctx.recentCommands) = 10
    /\ ctx.recentCommands[1] = S_ls
    /\ ctx.recentCommands[2] = S_git_status
    /\ Len(op.recent) = 3
    /\ op.recent[1] = S_ls

\* C35: an entry that a set removes from the map, its key no longer held
\* after the set, has the smallest timestamp of the entries the map held
\* before the set.
C35_EvictsOldestTimestamp ==
    [][(Calling("set") /\ config.ENABLE_CACHE)
       => \A k \in 1..Len(cache) :
             (\A i \in 1..Len(cache') : cache'[i].key # cache[k].key)
             => \A j \in 1..Len(cache) :
                   cache[k].timestamp <= cache[j].timestamp]_vars

\* C36: a set for a key the map already holds removes no other key: the keys
\* held after the set are the keys held before it, as many as before, also
\* when the map holds MAX_CACHE_SIZE entries.
C36_ResetKeepsOtherKeys ==
    [][(/\ Calling("set") /\ config.ENABLE_CACHE
        /\ CacheIndex(cache, getCacheKey(op'.input)) # 0)
       => /\ {cache'[i].key : i \in 1..Len(cache')}
                = {cache[i].key : i \in 1..Len(cache)}
          /\ Len(cache') = Len(cache)]_vars

\* C37: in every state the hit rate getUsageStats would report is at most
\* 100.0 percent, and once a request has been recorded cachedHits is at most
\* the totalRequests it is divided by.
C37_HitRateIsAProportion ==
    /\ cacheHitRate(usageStats).tenths <= 1000
    /\ usageStats.totalRequests > 0
       => usageStats.cachedHits <= usageStats.totalRequests

\* C38: no step makes totalRequests, cachedHits or costEstimate smaller, and
\* none makes dailyRequests smaller unless it is the load of a record of
\* another day (resetUsageStats is not among the steps taken); and no step
\* gives a key the map holds an entry with an older timestamp. This includes
\* the steps in which loadUsageStats and loadCache complete.
C38_LoadLosesNoUpdate ==
    [][/\ usageStats'.totalRequests >= usageStats.totalRequests
       /\ usageStats'.cachedHits >= usageStats.cachedHits
       /\ usageStats'.costEstimate >= usageStats.costEstimate
       /\ \/ usageStats'.dailyRequests >= usageStats.dailyRequests
          \/ /\ loading.usage /\ ~loading'.usage
             /\ usageFile.present /\ usageFile.data.lastReset # Today
       /\ \A i \in 1..Len(cache), j \in 1..Len(cache') :
             cache'[j].key = cache[i].key
             => cache'[j].timestamp >= cache[i].timestamp]_vars

\* C39: when the last method called was set or clearCache, the disk takes
\* writes and no write of suggestion-cache.json is pending any more, the file
\* holds the entries of the map.
C39_FileEqualsCacheAtRest ==
    (/\ op.name \in {"set", "clearCache"}
     /\ env.writable
     /\ cacheWrites = <<>>)
    => cacheFile = [present |-> TRUE, entries |-> cache]

\* C40: when a send that no other send has overlapped ends in the exhaustion
\* error, the cursor is where it was when the send was called, on the
\* credential the send posted with first, after one request and one rotation
\* for each credential of the pool.
C40_ExhaustionRestoresCursor ==
    [][\A s \in Sends :
          (send[s].pc = "await" /\ send'[s].pc = "threw" /\ send'[s].alone)
          => /\ currentKeyIndex' = send[s].startIndex
             /\ currentKeyIndex = (send[s].startIndex + apiKeys - 1) % apiKeys
             /\ send'[s].requests = apiKeys
             /\ send'[s].usedKeys = 0..(apiKeys - 1)]_vars

\* a send called alone with the cursor on the second of three credentials has
\* failed three times, and the cursor is on the second credential again
C40_Witness ==
    \E s \in Sends :
        /\ send[s].pc = "threw"
        /\ send[s].alone
        /\ apiKeys = 3
        /\ send[s].startIndex = 1
        /\ send[s].requests = 3
        /\ currentKeyIndex = 1

====
